---------------------------- MODULE Spec2Model ----------------------------
(***************************************************************************)
(* State-machine model of the shape_up platformer.                         *)
(*                                                                         *)
(* Spec models the PoseGame React component (src/src/components/           *)
(* PoseGame.tsx): its state hooks, its refs, its effects and the event     *)
(* handlers that drive the phases ready -> pose -> game -> won / lost.     *)
(*                                                                         *)
(* React semantics used by the model:                                      *)
(*  - a state setter writes the pending ("store") value of the hook; the   *)
(*    variables phase, gameWon, ... hold that value;                       *)
(*  - Render commits the pending values: the record `rendered` holds the   *)
(*    values of the last commit, the ones every effect closure reads;      *)
(*  - at a commit the clean-ups of all effects whose dependencies changed  *)
(*    run first, in declaration order, then their bodies in declaration    *)
(*    order; refs are read and written at once;                            *)
(*  - onClick handlers (Retry, Reset) are discrete events: React commits   *)
(*    and flushes their effects before the event returns, so the handler   *)
(*    and its commit form one step.  Timer, engine, camera and native      *)
(*    keyboard callbacks only schedule a commit.                           *)
(***************************************************************************)
EXTENDS Integers, Sequences, FiniteSets, TLC

\* ------------------------------------------------------------------------
\* Bounds of the model
\* ------------------------------------------------------------------------
\* flags in the loaded level
MaxFlags == 2
\* retries per mount (caps gameRunId)
MaxRuns == 1
\* estimatePoses calls of torn-down camera closures still in flight
MaxStale == 1
\* seconds of the pose countdown (poseTime prop, 10 by default) and of the
\* game countdown (gameTime prop, 60 by default)
poseTime == 2
gameTime == 2
\* pose helpers: coordinates reach MaxCoord half steps of the quantisation
\* either side of 0, a frame shows at most MaxPoses people
MaxCoord == 4
MaxPoses == 4
\* level editor: the platforms it holds at a time
MaxPlatforms == 2
\* detector module: the components that call getMoveNetDetector
MaxCallers == 3
\* tile-map variant: the moves a player is followed away from its cell
MaxShift == 1

\* ------------------------------------------------------------------------
\* Program constants
\* ------------------------------------------------------------------------
\* stage rectangle (width, height props)
width == 1200
height == 900
\* minKpScore 0.35 in hundredths, minLen in pixels, quantisation step
minKpScore == 35
minLen == 18
quantStep == 6
maxPeople == 3
\* gameLoop: moveSpeed and maxFallSpeed in pixels per tick, jumpForce -0.04
\* in hundredths, the share of the tangential velocity a moving player
\* loses (0.65) in percent, the air damping 0.9 in tenths
moveSpeed == 5
maxFallSpeed == 15
jumpForce == 0 - 4
movingKill == 65
airDamping == 9
\* velocities are fixed-point numbers: VelScale units are one pixel per tick
VelScale == 10000

\* ------------------------------------------------------------------------
\* Pose helpers (pure functions)
\* ------------------------------------------------------------------------
\* A keypoint is [name, x, y, score, hasScore]; score is in hundredths and
\* hasScore = FALSE stands for an undefined score.  A pose is a sequence of
\* keypoints, the detector's output a sequence of poses.

FACE_KEYPOINT_NAMES == {"nose", "left_eye", "right_eye", "left_ear", "right_ear"}

\* variant: only the nose counts as a face keypoint
isFaceKeypointNoseOnly(kp) == kp.name = "nose"

isFaceKeypoint(kp) == kp.name \in FACE_KEYPOINT_NAMES

\* kp.score ?? 0
ScoreOf(kp) == IF kp.hasScore THEN kp.score ELSE 0

RECURSIVE SumScores(_)
SumScores(kps) ==
  IF kps = << >> THEN 0 ELSE ScoreOf(Head(kps)) + SumScores(Tail(kps))

\* poseAvgScore(p) is the fraction num/den; averages are compared by
\* cross-multiplication
poseAvgScore(p) ==
  [num |-> SumScores(p), den |-> IF Len(p) > 1 THEN Len(p) ELSE 1]

\* b.s - a.s > 0 : b has to move in front of a
AvgGreater(b, a) ==
  poseAvgScore(b).num * poseAvgScore(a).den
    > poseAvgScore(a).num * poseAvgScore(b).den

\* variant: p goes in front of the poses of equal average
RECURSIVE InsertDescBeforeTies(_, _)
InsertDescBeforeTies(sorted, p) ==
  IF sorted = << >> THEN << p >>
  ELSE IF ~AvgGreater(Head(sorted), p) THEN << p >> \o sorted
  ELSE << Head(sorted) >> \o InsertDescBeforeTies(Tail(sorted), p)

\* stable insertion of p into a sequence sorted by descending average
RECURSIVE InsertDesc(_, _)
InsertDesc(sorted, p) ==
  IF sorted = << >> THEN << p >>
  ELSE IF AvgGreater(p, Head(sorted)) THEN << p >> \o sorted
  ELSE << Head(sorted) >> \o InsertDesc(Tail(sorted), p)

RECURSIVE SortDesc(_)
SortDesc(poses) ==
  IF poses = << >> THEN << >>
  ELSE InsertDesc(SortDesc(SubSeq(poses, 1, Len(poses) - 1)), poses[Len(poses)])

pickTopPoses(poses, n) ==
  LET sorted == SortDesc(poses)
  IN SubSeq(sorted, 1, IF Len(sorted) < n THEN Len(sorted) ELSE n)

\* variant: Math.floor in place of Math.round
quantFloor(n) == (n \div quantStep) * quantStep

\* Math.round(n / step) * step on integers: round half up
quant(n) == ((2 * n + quantStep) \div (2 * quantStep)) * quantStep

\* decimal digits of a natural number as character codes
RECURSIVE Digits(_)
Digits(n) ==
  IF n < 10 THEN << 48 + n >> ELSE Digits(n \div 10) \o << 48 + (n % 10) >>

\* `${n}` for an integer
NumStr(n) == IF n < 0 THEN << 45 >> \o Digits(0 - n) ELSE Digits(n)

\* `${x},${y}`
PointStr(x, y) == NumStr(x) \o << 44 >> \o NumStr(y)

\* JavaScript string comparison k1 < k2 (code units, shorter prefix first)
RECURSIVE StrLess(_, _)
StrLess(k1, k2) ==
  IF k2 = << >> THEN FALSE
  ELSE IF k1 = << >> THEN TRUE
  ELSE IF Head(k1) # Head(k2) THEN Head(k1) < Head(k2)
  ELSE StrLess(Tail(k1), Tail(k2))

\* variant: the two points are never put in canonical order
segKeyUnordered(a, b) ==
  LET k1 == PointStr(quant(a.x), quant(a.y))
      k2 == PointStr(quant(b.x), quant(b.y))
  IN k1 \o << 124 >> \o k2

segKey(a, b) ==
  LET k1 == PointStr(quant(a.x), quant(a.y))
      k2 == PointStr(quant(b.x), quant(b.y))
  IN IF StrLess(k1, k2) THEN k1 \o << 124 >> \o k2 ELSE k2 \o << 124 >> \o k1

\* poseDetection.util.getAdjacentPairs(MoveNet), 0-based keypoint indices
AdjacentPairs ==
  << <<0, 1>>, <<0, 2>>, <<1, 3>>, <<2, 4>>, <<5, 6>>, <<5, 7>>, <<5, 11>>,
     <<6, 8>>, <<6, 12>>, <<7, 9>>, <<8, 10>>, <<11, 12>>, <<11, 13>>,
     <<12, 14>>, <<13, 15>>, <<14, 16>> >>

\* variant: a segment of exactly minLen is too short
TooShortAtMinLen(a, b) ==
  (b.x - a.x) * (b.x - a.x) + (b.y - a.y) * (b.y - a.y) <= minLen * minLen

\* Math.hypot(bx - ax, by - ay) < minLen, on integers
TooShort(a, b) ==
  (b.x - a.x) * (b.x - a.x) + (b.y - a.y) * (b.y - a.y) < minLen * minLen

OutsideStage(a, b, stageW, stageH) ==
  \/ a.x < 0 \/ a.x > stageW \/ b.x < 0 \/ b.x > stageW
  \/ a.y < 0 \/ a.y > stageH \/ b.y < 0 \/ b.y > stageH

\* variant: a score of exactly minKpScore is too low
PairStepStrictScore(acc, kps, pair, stageW, stageH) ==
  LET i == pair[1] + 1
      j == pair[2] + 1
  IN IF i > Len(kps) \/ j > Len(kps) THEN acc
     ELSE LET a == kps[i]
              b == kps[j]
              key == segKey(a, b)
          IN IF isFaceKeypoint(a) \/ isFaceKeypoint(b) THEN acc
             ELSE IF ScoreOf(a) <= minKpScore \/ ScoreOf(b) <= minKpScore THEN acc
             ELSE IF TooShort(a, b) THEN acc
             ELSE IF OutsideStage(a, b, stageW, stageH) THEN acc
             ELSE IF key \in acc.seen THEN acc
             ELSE [acc EXCEPT
                     !.out = Append(@, [start |-> [x |-> a.x, y |-> a.y],
                                        end |-> [x |-> b.x, y |-> b.y]]),
                     !.seen = @ \cup {key}]

\* variant: a segment is stored whether or not its key has been seen
PairStepKeepsAll(acc, kps, pair, stageW, stageH) ==
  LET i == pair[1] + 1
      j == pair[2] + 1
  IN IF i > Len(kps) \/ j > Len(kps) THEN acc
     ELSE LET a == kps[i]
              b == kps[j]
              key == segKey(a, b)
          IN IF isFaceKeypoint(a) \/ isFaceKeypoint(b) THEN acc
             ELSE IF ScoreOf(a) < minKpScore \/ ScoreOf(b) < minKpScore THEN acc
             ELSE IF TooShort(a, b) THEN acc
             ELSE IF OutsideStage(a, b, stageW, stageH) THEN acc
             ELSE [acc EXCEPT
                     !.out = Append(@, [start |-> [x |-> a.x, y |-> a.y],
                                        end |-> [x |-> b.x, y |-> b.y]]),
                     !.seen = @ \cup {key}]

\* one iteration of the inner loop on the loop state acc = [out, seen, ..]
PairStep(acc, kps, pair, stageW, stageH) ==
  LET i == pair[1] + 1
      j == pair[2] + 1
  IN IF i > Len(kps) \/ j > Len(kps) THEN acc
     ELSE LET a == kps[i]
              b == kps[j]
              key == segKey(a, b)
          IN IF isFaceKeypoint(a) \/ isFaceKeypoint(b) THEN acc
             ELSE IF ScoreOf(a) < minKpScore \/ ScoreOf(b) < minKpScore THEN acc
             ELSE IF TooShort(a, b) THEN acc
             ELSE IF OutsideStage(a, b, stageW, stageH) THEN acc
             ELSE IF key \in acc.seen THEN acc
             ELSE [acc EXCEPT
                     !.out = Append(@, [start |-> [x |-> a.x, y |-> a.y],
                                        end |-> [x |-> b.x, y |-> b.y]]),
                     !.seen = @ \cup {key}]

\* the two nested for loops; acc.person and acc.pair are the loop indices
RECURSIVE SegmentLoop(_, _, _, _)
SegmentLoop(acc, chosen, stageW, stageH) ==
  IF acc.person > Len(chosen) THEN acc
  ELSE IF acc.pair > Len(AdjacentPairs)
  THEN SegmentLoop([acc EXCEPT !.person = @ + 1, !.pair = 1],
                   chosen, stageW, stageH)
  ELSE SegmentLoop(
         [PairStep(acc, chosen[acc.person], AdjacentPairs[acc.pair],
                   stageW, stageH) EXCEPT !.pair = @ + 1],
         chosen, stageW, stageH)

posesToPlatformLines(poses, stageW, stageH) ==
  IF poses = << >> THEN << >>
  ELSE SegmentLoop([out |-> << >>, seen |-> {}, person |-> 1, pair |-> 1],
                   pickTopPoses(poses, maxPeople), stageW, stageH).out

\* ------------------------------------------------------------------------
\* Detector outputs used as inputs of the camera loop
\* ------------------------------------------------------------------------
KeypointNames ==
  << "nose", "left_eye", "right_eye", "left_ear", "right_ear",
     "left_shoulder", "right_shoulder", "left_elbow", "right_elbow",
     "left_wrist", "right_wrist", "left_hip", "right_hip",
     "left_knee", "right_knee", "left_ankle", "right_ankle" >>

\* a standing person whose left shoulder is at (x0, y0); arms spread,
\* every keypoint detected with the given score
StandingPose(x0, y0, score) ==
  LET xs == << 30, 20, 40, 10, 50, 0, 60, -40, 100, -80, 140,
               10, 50, 10, 50, 10, 50 >>
      ys == << -40, -45, -45, -40, -40, 0, 0, 10, 10, 0, 0,
               100, 100, 160, 160, 220, 220 >>
  IN [k \in 1..17 |->
        [name |-> KeypointNames[k], x |-> x0 + xs[k], y |-> y0 + ys[k],
         score |-> score, hasScore |-> TRUE]]

\* a person of whom only the shoulders and elbows are detected with a score
\* above minKpScore
ArmsPose(x0, y0) ==
  [k \in 1..17 |->
     [StandingPose(x0, y0, 60)[k] EXCEPT !.score = IF k \in 6..9 THEN 60 ELSE 10]]

\* what estimatePoses may return: nobody, or one person
DetectorOutputs == { << >>, << ArmsPose(600, 300) >> }

\* a person with the keypoints (xs[k], ys[k]); a negative entry of scores
\* stands for a keypoint without score
PersonOf(xs, ys, scores) ==
  [k \in 1..17 |->
     [name |-> KeypointNames[k], x |-> xs[k], y |-> ys[k],
      score |-> IF scores[k] < 0 THEN 0 ELSE scores[k],
      hasScore |-> scores[k] >= 0]]

\* a person facing the other way, two pixels to the right of and a pixel
\* below StandingPose(600, 300, 60): left and right keypoints change places
MirroredPose ==
  LET s == StandingPose(602, 301, 60)
      other(k) == IF k = 1 THEN 1 ELSE IF k % 2 = 0 THEN k + 1 ELSE k - 1
  IN [k \in 1..17 |-> [s[other(k)] EXCEPT !.name = KeypointNames[k]]]

\* a face seen from close by, every face keypoint detected with score 0.99
\* and far from the others; the scores of shoulders, elbows, wrists and
\* hips lie at, just below and just above minKpScore, the right elbow has
\* no score
FacePose ==
  PersonOf(
    << 100, 200, 100, 300, 100, 300, 400, 300, 400, 300, 400,
       300, 400, 300, 400, 300, 400 >>,
    << 100, 100, 200, 100, 300, 400, 400, 500, 500, 600, 600,
       700, 700, 800, 800, 880, 880 >>,
    << 99, 99, 99, 99, 99, 35, 35, 34, -1, 35, 35,
       36, 34, 0, 0, 0, 0 >>)

\* a person along the edges of the stage: joints on the border, one pixel
\* outside it, and 17, 18 and 10 pixels apart
EdgePose ==
  PersonOf(
    << 30, 20, 40, 10, 50, 0, 18, 0, 18, 0 - 1, width + 1,
       10, width, 10, width, 10, width >>,
    << 40, 45, 45, 40, 40, 0, 0, 17, height, 117, height,
       0, 0, height + 1, height, 0 - 1, height - 18 >>,
    << 70, 70, 70, 70, 70, 70, 70, 70, 70, 70, 70,
       70, 70, 70, 70, 70, 70 >>)

\* the same person seen from behind: the left arm runs from (18,0) to (0,0)
\* and the left thigh from (10,0) to (0,0)
BackPose ==
  [EdgePose EXCEPT ![6] = [@ EXCEPT !.x = 18, !.y = 0],
                   ![8] = [@ EXCEPT !.x = 0, !.y = 0],
                   ![14] = [@ EXCEPT !.x = 0, !.y = 0]]

\* the people a frame can show
People ==
  { StandingPose(600, 300, 60), MirroredPose, FacePose, EdgePose, BackPose }

\* ------------------------------------------------------------------------
\* Levels: the flags of loadLevel, as the sequence of their playerType
\* ------------------------------------------------------------------------
\* k flags, for player 1 and player 2 in turn
AlternatingFlags(k) == [i \in 1..k |-> IF i % 2 = 1 THEN 1 ELSE 2]

\* the levels tried: one without flags and one with MaxFlags flags
Levels == { AlternatingFlags(0), AlternatingFlags(MaxFlags) }

\* ------------------------------------------------------------------------
\* State
\* ------------------------------------------------------------------------
VARIABLES
  \* props and context
  loadLevel,            \* flags of the level: sequence of playerType
  detector,             \* usePoseDetector().detector is non-null
  imagesLoaded,         \* loadedImages set: identity of drawLevelPreview
  \* useState hooks (pending values)
  phase, cameraReady, secondsLeft, platformLines, capturedPoseImage,
  gameSecondsLeft, gameOver, gameWon, flagStates, gameRunId,
  \* values of the hooks at the last commit, and whether mounted
  rendered, mounted,
  \* refs
  gameOverRef, flagsRef, lastPosesRef, streamRef, rafRef, keysRef,
  playerGrounded, playerGroundNormal, playerLockedPosition,
  playerBody,           \* player1Ref / player2Ref: the Matter bodies
  \* the keyboard
  keysDown,             \* keys physically held (a held key repeats keydown)
  \* resources owned by effect closures
  spaceListener,        \* keydown listener of the ready phase is attached
  camLoop,              \* position of the live camera closure
  staleEstimates,       \* estimatePoses calls in flight in cancelled closures
  poseTimer,            \* interval of the pose countdown is set
  gameTimer,            \* interval of the game countdown is set
  engine,               \* Matter engine, runner and listeners exist
  engineStage,          \* the next callback of the running Engine.update
  \* history of the current attempt / pose phase
  winSignals,           \* onWin calls since the attempt began
  attemptTicks,         \* decrements of the game countdown in this attempt
  poseTransitions,      \* pose -> game transitions since the pose phase began
  freshJump,            \* per player: a fresh press of the jump key that no
                        \* jump impulse has used yet
  scenarioPlayer,       \* the player whose keys and contacts the run varies
  idleRun,              \* per player: the run of consecutive ticks at which
                        \* the player was grounded with no key state set:
                        \* position after its first tick, and whether it
                        \* has had a second tick
  quietRun,             \* the same, for ticks on which gameLoop acted and
                        \* with no keydown of the player between them
  \* calls of the pose helpers
  poseCall,             \* a call of a pose helper: its name, its arguments
                        \* and, once it has returned, its result
  \* the level editor
  editor,               \* the state and refs of the LevelCreator component
                        \* and the level it last saved; Null while it is
                        \* not shown
  editorAlert,          \* the alert the editor is showing, as a sequence of
                        \* its one message; Null when it shows none
  \* the detector module and the tile-map page
  moveNet,              \* lib/detector.ts: detectorPromise, the promises and
                        \* detectors created, and the callers of
                        \* getMoveNetDetector; Null while nothing imports it
  tileGame              \* pages/game.tsx: the state, refs and kaboom scene
                        \* of GamePage; Null while it is not shown

\* the state of the PoseGame component and of its keyboard and engine
gameVars ==
  << loadLevel, detector, imagesLoaded,
     phase, cameraReady, secondsLeft, platformLines, capturedPoseImage,
     gameSecondsLeft, gameOver, gameWon, flagStates, gameRunId,
     rendered, mounted,
     gameOverRef, flagsRef, lastPosesRef, streamRef, rafRef, keysRef,
     playerGrounded, playerGroundNormal, playerLockedPosition, playerBody,
     spaceListener, camLoop, staleEstimates, poseTimer, gameTimer, engine,
     engineStage, winSignals, attemptTicks, poseTransitions,
     keysDown, freshJump, scenarioPlayer, idleRun, quietRun >>

\* the variables of the detector module and of the tile-map page
pageVars == << moveNet, tileGame >>

vars == << gameVars, poseCall, editor, editorAlert, pageVars >>

Null == << >>

NoKeys ==
  [a |-> FALSE, d |-> FALSE, w |-> FALSE,
   left |-> FALSE, right |-> FALSE, up |-> FALSE]

Min(x, y) == IF x < y THEN x ELSE y

\* the values a render reads from the hooks
Hooks ==
  [phase |-> phase, cameraReady |-> cameraReady, secondsLeft |-> secondsLeft,
   platformLines |-> platformLines, capturedPoseImage |-> capturedPoseImage,
   gameSecondsLeft |-> gameSecondsLeft, gameOver |-> gameOver,
   gameWon |-> gameWon, flagStates |-> flagStates, gameRunId |-> gameRunId,
   detector |-> detector, imagesLoaded |-> imagesLoaded]

\* everything a handler or an effect can write
Cur ==
  [phase |-> phase, cameraReady |-> cameraReady, secondsLeft |-> secondsLeft,
   platformLines |-> platformLines, capturedPoseImage |-> capturedPoseImage,
   gameSecondsLeft |-> gameSecondsLeft, gameOver |-> gameOver,
   gameWon |-> gameWon, flagStates |-> flagStates, gameRunId |-> gameRunId,
   gameOverRef |-> gameOverRef, flagsRef |-> flagsRef,
   lastPosesRef |-> lastPosesRef, streamRef |-> streamRef, rafRef |-> rafRef,
   keysRef |-> keysRef, playerGrounded |-> playerGrounded,
   playerGroundNormal |-> playerGroundNormal,
   playerLockedPosition |-> playerLockedPosition, playerBody |-> playerBody,
   spaceListener |-> spaceListener, camLoop |-> camLoop,
   staleEstimates |-> staleEstimates, poseTimer |-> poseTimer,
   gameTimer |-> gameTimer, engine |-> engine, engineStage |-> engineStage,
   winSignals |-> winSignals, attemptTicks |-> attemptTicks,
   poseTransitions |-> poseTransitions,
   keysDown |-> keysDown, freshJump |-> freshJump,
   idleRun |-> idleRun, quietRun |-> quietRun]

\* the next state holds the fields of s (s is evaluated once)
Commit(s) ==
  \E t \in {s} :
    /\ phase' = t.phase
    /\ cameraReady' = t.cameraReady
    /\ secondsLeft' = t.secondsLeft
    /\ platformLines' = t.platformLines
    /\ capturedPoseImage' = t.capturedPoseImage
    /\ gameSecondsLeft' = t.gameSecondsLeft
    /\ gameOver' = t.gameOver
    /\ gameWon' = t.gameWon
    /\ flagStates' = t.flagStates
    /\ gameRunId' = t.gameRunId
    /\ gameOverRef' = t.gameOverRef
    /\ flagsRef' = t.flagsRef
    /\ lastPosesRef' = t.lastPosesRef
    /\ streamRef' = t.streamRef
    /\ rafRef' = t.rafRef
    /\ keysRef' = t.keysRef
    /\ playerGrounded' = t.playerGrounded
    /\ playerGroundNormal' = t.playerGroundNormal
    /\ playerLockedPosition' = t.playerLockedPosition
    /\ playerBody' = t.playerBody
    /\ spaceListener' = t.spaceListener
    /\ camLoop' = t.camLoop
    /\ staleEstimates' = t.staleEstimates
    /\ poseTimer' = t.poseTimer
    /\ gameTimer' = t.gameTimer
    /\ engine' = t.engine
    /\ engineStage' = t.engineStage
    /\ winSignals' = t.winSignals
    /\ attemptTicks' = t.attemptTicks
    /\ poseTransitions' = t.poseTransitions
    /\ keysDown' = t.keysDown
    /\ freshJump' = t.freshJump
    /\ idleRun' = t.idleRun
    /\ quietRun' = t.quietRun

\* the hooks, refs and closures before the first render
Construction ==
  /\ detector = FALSE
  /\ imagesLoaded = FALSE
  /\ phase = "ready"
  /\ cameraReady = FALSE
  /\ secondsLeft = poseTime
  /\ platformLines = << >>
  /\ capturedPoseImage = FALSE
  /\ gameSecondsLeft = gameTime
  /\ gameOver = FALSE
  /\ gameWon = FALSE
  /\ flagStates = {}
  /\ gameRunId = 0
  /\ rendered = Hooks
  /\ mounted = FALSE
  /\ gameOverRef = FALSE
  /\ flagsRef = << >>
  /\ lastPosesRef = << >>
  /\ streamRef = FALSE
  /\ rafRef = "null"
  /\ keysRef = NoKeys
  /\ playerGrounded = [p \in {1, 2} |-> FALSE]
  /\ playerGroundNormal = [p \in {1, 2} |-> Null]
  /\ playerLockedPosition = [p \in {1, 2} |-> Null]
  /\ playerBody = [p \in {1, 2} |-> Null]
  /\ spaceListener = FALSE
  /\ camLoop = "none"
  /\ staleEstimates = 0
  /\ poseTimer = FALSE
  /\ gameTimer = FALSE
  /\ engine = FALSE
  /\ engineStage = "beforeUpdate"
  /\ winSignals = 0
  /\ attemptTicks = 0
  /\ poseTransitions = 0
  /\ keysDown = {}
  /\ freshJump = [p \in {1, 2} |-> FALSE]
  /\ scenarioPlayer = 1
  /\ idleRun = [p \in {1, 2} |-> Null]
  /\ quietRun = [p \in {1, 2} |-> Null]

\* the component before its first render
Unmounted ==
  /\ loadLevel \in Levels
  /\ Construction

Init ==
  /\ Unmounted
  /\ poseCall = Null
  /\ editor = Null
  /\ editorAlert = Null
  /\ moveNet = Null
  /\ tileGame = Null

\* ------------------------------------------------------------------------
\* Effects.  s: the mutable state so far, o: hooks at the previous commit,
\* n: hooks at this commit, first: this is the mount.
\* ------------------------------------------------------------------------
DepsChanged(o, n, first, deps) == first \/ \E dep \in deps : o[dep] # n[dep]

SpaceDeps == {"phase"}
CameraDeps == {"phase", "detector", "imagesLoaded"}
CountdownDeps == {"phase", "cameraReady"}
TransitionDeps == {"secondsLeft", "phase", "cameraReady"}
GameOverRefDeps == {"gameOver"}
GameDeps == {"phase", "gameRunId", "platformLines"}
WinDeps == {"flagStates", "gameWon", "phase"}
GameTimerDeps == {"phase", "gameRunId"}
LoseDeps == {"phase", "gameSecondsLeft", "gameWon"}

\* stopCamera, also inlined in the transition effect: cancels the frame
\* whose id rafRef holds and stops the tracks of streamRef
stopCamera(s) ==
  [s EXCEPT !.camLoop = IF s.camLoop = "frame" /\ s.rafRef = "own"
                        THEN "halted" ELSE @,
            !.rafRef = "null",
            !.streamRef = FALSE]

\* clean-up of the camera effect: cancelled = true; stopCamera().  An
\* estimatePoses call the closure awaits stays in flight.
CameraCleanup(s) ==
  IF s.camLoop = "none" THEN s
  ELSE LET t == stopCamera(s)
       IN [t EXCEPT !.camLoop = "none",
                    !.staleEstimates =
                      IF s.camLoop = "estimating"
                      THEN Min(@ + 1, MaxStale) ELSE @]

CountdownCleanup(s) == [s EXCEPT !.poseTimer = FALSE]

\* clean-up of the game effect: engine, runner, render and listeners are
\* disposed, platformsRef and flagsRef emptied
GameCleanup(s) ==
  IF s.engine THEN [s EXCEPT !.engine = FALSE, !.flagsRef = << >>] ELSE s

GameTimerCleanup(s) == [s EXCEPT !.gameTimer = FALSE]

\* spacebar listener, only attached in the ready phase
SpaceEffect(s, n) == [s EXCEPT !.spaceListener = (n.phase = "ready")]

\* camera effect: startCamera() requests the user media
CameraEffect(s, n) ==
  IF n.phase \notin {"ready", "pose"} THEN s
  ELSE IF ~n.detector THEN s
  ELSE [s EXCEPT !.camLoop = "requesting"]

\* pose countdown: only starts when the camera is ready
CountdownEffect(s, n) ==
  IF n.phase # "pose" THEN s
  ELSE IF ~n.cameraReady THEN s
  ELSE [s EXCEPT !.secondsLeft = poseTime, !.poseTimer = TRUE]

\* variant: the countdown is not consulted
TransitionConditionNoCountdown(n) ==
  /\ n.phase = "pose"
  /\ n.cameraReady

\* the early returns of the transition effect
TransitionCondition(n) ==
  /\ n.phase = "pose"
  /\ n.secondsLeft = 0
  /\ n.cameraReady

\* variant: the platform set is not frozen at the transition
TransitionEffectNoFreeze(s, n) ==
  IF ~TransitionCondition(n) THEN s
  ELSE LET t == stopCamera(s)
       IN [t EXCEPT !.capturedPoseImage = TRUE,
                    !.phase = "game",
                    !.poseTransitions = Min(@ + 1, 2)]

\* transition to game when the pose timer ends: freezes the platform set,
\* captures the image, stops the camera
TransitionEffect(s, n) ==
  IF ~TransitionCondition(n) THEN s
  ELSE LET t == stopCamera(s)
       IN [t EXCEPT !.platformLines =
                      posesToPlatformLines(s.lastPosesRef, width, height),
                    !.capturedPoseImage = TRUE,
                    !.phase = "game",
                    !.poseTransitions = Min(@ + 1, 2)]

GameOverRefEffect(s, n) == [s EXCEPT !.gameOverRef = n.gameOver]

\* flagsRef entries pushed while loading the level
LoadFlags(lv) == [i \in 1..Len(lv) |-> [playerType |-> lv[i], raised |-> FALSE]]

\* default spawn points: (width * 0.125, height * 0.5) and
\* (width * 0.875, height * 0.5)
Spawn(p) ==
  IF p = 1 THEN << width \div 8, height \div 2 >>
  ELSE << (width * 7) \div 8, height \div 2 >>

\* Matter.Bodies.rectangle at the spawn point: a body at rest
SpawnBody(p) ==
  [position |-> Spawn(p), velocity |-> << 0, 0 >>, angularVelocity |-> 0,
   force |-> << 0, 0 >>]

\* game effect: builds the world, the flags, the players and the listeners
GameEffect(s, n) ==
  IF n.phase # "game" THEN s
  ELSE [s EXCEPT !.engine = TRUE,
                 !.engineStage = "beforeUpdate",
                 !.playerBody = [p \in {1, 2} |-> SpawnBody(p)],
                 !.flagsRef = s.flagsRef \o LoadFlags(loadLevel),
                 !.winSignals = 0,
                 !.attemptTicks = 0,
                 !.idleRun = [p \in {1, 2} |-> Null],
                 !.quietRun = [p \in {1, 2} |-> Null]]

\* variant: some instead of every
someRaised(flags) == \E i \in 1..Len(flags) : flags[i].raised

\* flagsRef.current.every((flag) => flag.raised)
allRaised(flags) == \A i \in 1..Len(flags) : flags[i].raised

\* variant: without the !gameWon guard
WinConditionNoEdge(s, n) ==
  /\ n.phase = "game"
  /\ Len(s.flagsRef) > 0
  /\ allRaised(s.flagsRef)

\* the condition under which the win effect signals the win
WinCondition(s, n) ==
  /\ n.phase = "game"
  /\ Len(s.flagsRef) > 0
  /\ allRaised(s.flagsRef)
  /\ ~n.gameWon

\* check win condition: setGameWon(true); onWinSfx(); onWin()
WinEffect(s, n) ==
  IF WinCondition(s, n)
  THEN [s EXCEPT !.gameWon = TRUE, !.winSignals = Min(@ + 1, 2)]
  ELSE s

\* game countdown, re-run on retry
GameTimerEffect(s, n) ==
  IF n.phase # "game" THEN s
  ELSE IF n.gameWon THEN s
  ELSE IF n.gameOver THEN s
  ELSE [s EXCEPT !.gameSecondsLeft = gameTime, !.gameTimer = TRUE]

\* variant: without the gameWon early return
LoseConditionNoWinCheck(n) ==
  /\ n.phase = "game"
  /\ n.gameSecondsLeft = 0

\* the condition under which the lose effect ends the game
LoseCondition(n) ==
  /\ n.phase = "game"
  /\ ~n.gameWon
  /\ n.gameSecondsLeft = 0

LoseEffect(s, n) ==
  IF LoseCondition(n)
  THEN [s EXCEPT !.gameOver = TRUE, !.gameOverRef = TRUE]
  ELSE s

\* an effect's clean-up runs when its dependencies changed
RunCameraCleanup(s, o, n, first) ==
  IF DepsChanged(o, n, first, CameraDeps) THEN CameraCleanup(s) ELSE s

RunCountdownCleanup(s, o, n, first) ==
  IF DepsChanged(o, n, first, CountdownDeps) THEN CountdownCleanup(s) ELSE s

RunGameCleanup(s, o, n, first) ==
  IF DepsChanged(o, n, first, GameDeps) THEN GameCleanup(s) ELSE s

RunGameTimerCleanup(s, o, n, first) ==
  IF DepsChanged(o, n, first, GameTimerDeps) THEN GameTimerCleanup(s) ELSE s

\* an effect's body runs when its dependencies changed
RunSpaceEffect(s, o, n, first) ==
  IF DepsChanged(o, n, first, SpaceDeps) THEN SpaceEffect(s, n) ELSE s

RunCameraEffect(s, o, n, first) ==
  IF DepsChanged(o, n, first, CameraDeps) THEN CameraEffect(s, n) ELSE s

RunCountdownEffect(s, o, n, first) ==
  IF DepsChanged(o, n, first, CountdownDeps) THEN CountdownEffect(s, n) ELSE s

RunTransitionEffect(s, o, n, first) ==
  IF DepsChanged(o, n, first, TransitionDeps) THEN TransitionEffect(s, n) ELSE s

RunGameOverRefEffect(s, o, n, first) ==
  IF DepsChanged(o, n, first, GameOverRefDeps) THEN GameOverRefEffect(s, n) ELSE s

RunGameEffect(s, o, n, first) ==
  IF DepsChanged(o, n, first, GameDeps) THEN GameEffect(s, n) ELSE s

RunWinEffect(s, o, n, first) ==
  IF DepsChanged(o, n, first, WinDeps) THEN WinEffect(s, n) ELSE s

RunGameTimerEffect(s, o, n, first) ==
  IF DepsChanged(o, n, first, GameTimerDeps) THEN GameTimerEffect(s, n) ELSE s

RunLoseEffect(s, o, n, first) ==
  IF DepsChanged(o, n, first, LoseDeps) THEN LoseEffect(s, n) ELSE s

\* one commit: all clean-ups of the effects to re-run, then their bodies
RunEffects(s0, o, n, first) ==
  LET c1 == RunCameraCleanup(s0, o, n, first)
      c2 == RunCountdownCleanup(c1, o, n, first)
      c3 == RunGameCleanup(c2, o, n, first)
      c4 == RunGameTimerCleanup(c3, o, n, first)
      e1 == RunSpaceEffect(c4, o, n, first)
      e2 == RunCameraEffect(e1, o, n, first)
      e3 == RunCountdownEffect(e2, o, n, first)
      e4 == RunTransitionEffect(e3, o, n, first)
      e5 == RunGameOverRefEffect(e4, o, n, first)
      e6 == RunGameEffect(e5, o, n, first)
      e7 == RunWinEffect(e6, o, n, first)
      e8 == RunGameTimerEffect(e7, o, n, first)
      e9 == RunLoseEffect(e8, o, n, first)
  IN e9

\* the hooks part of a state record
HooksOf(s) ==
  [phase |-> s.phase, cameraReady |-> s.cameraReady,
   secondsLeft |-> s.secondsLeft, platformLines |-> s.platformLines,
   capturedPoseImage |-> s.capturedPoseImage,
   gameSecondsLeft |-> s.gameSecondsLeft, gameOver |-> s.gameOver,
   gameWon |-> s.gameWon, flagStates |-> s.flagStates,
   gameRunId |-> s.gameRunId, detector |-> detector,
   imagesLoaded |-> imagesLoaded]

\* commit of the pending hook values of s, with its effects
CommitRender(s) ==
  /\ Commit(RunEffects(s, rendered, HooksOf(s), ~mounted))
  /\ rendered' = HooksOf(s)
  /\ mounted' = TRUE

\* React renders when the component mounts or a hook value changed
Render ==
  /\ ~mounted \/ Hooks # rendered
  /\ engineStage = "beforeUpdate"
  /\ CommitRender(Cur)
  /\ UNCHANGED << pageVars, poseCall, editor, editorAlert, scenarioPlayer, loadLevel, detector, imagesLoaded >>

\* ------------------------------------------------------------------------
\* Context and asset events
\* ------------------------------------------------------------------------
\* PoseDetectorProvider resolves the detector
DetectorLoaded ==
  /\ ~detector
  /\ detector' = TRUE
  /\ UNCHANGED << pageVars, poseCall, editor, editorAlert, scenarioPlayer, loadLevel, imagesLoaded, rendered, mounted >>
  /\ Commit(Cur)

\* the last preloaded image arrives: setLoadedImages, setImagesLoaded
ImagesLoaded ==
  /\ mounted
  /\ ~imagesLoaded
  /\ imagesLoaded' = TRUE
  /\ UNCHANGED << pageVars, poseCall, editor, editorAlert, scenarioPlayer, loadLevel, detector, rendered, mounted >>
  /\ Commit(Cur)

\* a step that only writes hooks, refs or closure state
Step(s) ==
  /\ Commit(s)
  /\ UNCHANGED << pageVars, poseCall, editor, editorAlert, scenarioPlayer, loadLevel, detector, imagesLoaded, rendered, mounted >>

\* ------------------------------------------------------------------------
\* Ready phase: the start signal
\* ------------------------------------------------------------------------
\* handleKeyDown of the spacebar effect, e.code === "Space"
SpaceKeyDown(s) == [s EXCEPT !.phase = "pose", !.poseTransitions = 0]

SpaceKey ==
  /\ spaceListener
  /\ Step(SpaceKeyDown(Cur))

\* ------------------------------------------------------------------------
\* Camera closure: startCamera, onloadedmetadata, loop
\* ------------------------------------------------------------------------
\* getUserMedia resolved and the closure is not cancelled
GetUserMediaResolved ==
  /\ camLoop = "requesting"
  /\ Step([Cur EXCEPT !.streamRef = TRUE, !.camLoop = "metadata"])

\* getUserMedia rejected: console.error, nothing else
GetUserMediaRejected ==
  /\ camLoop = "requesting"
  /\ Step([Cur EXCEPT !.camLoop = "halted"])

\* onloadedmetadata: play() succeeded, setCameraReady(true), loop() awaits
\* its first estimate
LoadedMetadata ==
  /\ camLoop = "metadata"
  /\ Step([Cur EXCEPT !.cameraReady = TRUE, !.camLoop = "estimating"])

\* onloadedmetadata: play() rejected
PlayRejected ==
  /\ camLoop = "metadata"
  /\ Step([Cur EXCEPT !.camLoop = "halted"])

\* continuation of loop after await estimatePoses: lastPosesRef, drawing,
\* requestAnimationFrame(loop)
EstimateResolved(s, newPoses) ==
  [s EXCEPT !.lastPosesRef = newPoses, !.rafRef = "own", !.camLoop = "frame"]

EstimateDone ==
  /\ camLoop = "estimating"
  /\ \E newPoses \in DetectorOutputs : Step(EstimateResolved(Cur, newPoses))

\* the same continuation in a closure whose effect was cleaned up: it does
\* not test cancelled; the frame it requests returns at once
StaleEstimateResolved(s, newPoses) ==
  [s EXCEPT !.lastPosesRef = newPoses, !.rafRef = "stale",
            !.staleEstimates = @ - 1]

StaleEstimateDone ==
  /\ staleEstimates > 0
  /\ \E newPoses \in DetectorOutputs :
       Step(StaleEstimateResolved(Cur, newPoses))

\* the animation frame of the live closure fires: loop() starts the next
\* estimate
AnimationFrame ==
  /\ camLoop = "frame"
  /\ Step([Cur EXCEPT !.camLoop = "estimating"])

\* ------------------------------------------------------------------------
\* Timers
\* ------------------------------------------------------------------------
\* setSecondsLeft((s) => (s <= 1 ? 0 : s - 1))
\* variant: the countdown stops at one
CountDownStops(sec) == IF sec <= 1 THEN 1 ELSE sec - 1

\* the updater of both countdown intervals
CountDown(sec) == IF sec <= 1 THEN 0 ELSE sec - 1

PoseTick ==
  /\ poseTimer
  /\ Step([Cur EXCEPT !.secondsLeft = CountDown(@)])

GameTick ==
  /\ gameTimer
  /\ Step([Cur EXCEPT !.gameSecondsLeft = CountDown(@),
                      !.attemptTicks = Min(@ + 1, gameTime)])

\* ------------------------------------------------------------------------
\* Engine events
\* ------------------------------------------------------------------------
Player(p) == << "player", p >>
Flag(i) == << "flag", i >>
Platform == << "platform", 0 >>
isSensor(body) == body[1] = "flag"
NoNormal == << 0, 0 >>
\* contact normals are integer vectors of length NormalScale
NormalScale == 10

\* the flags a touch of body other by player p raises
RaisedBy(flags, p, other) ==
  { i \in 1..Len(flags) :
      flags[i].playerType = p /\ other = Flag(i) /\ ~flags[i].raised }

\* variant: a touch of the player's own flag toggles it
CollisionStartPlayerToggle(s, pair, p) ==
  IF pair.bodyA # Player(p) /\ pair.bodyB # Player(p) THEN s
  ELSE LET otherBody == IF pair.bodyA = Player(p) THEN pair.bodyB
                        ELSE pair.bodyA
           hit == { i \in 1..Len(s.flagsRef) :
                      s.flagsRef[i].playerType = p /\ otherBody = Flag(i) }
       IN [s EXCEPT
             !.flagsRef = [i \in 1..Len(@) |->
                             IF i \in hit
                             THEN [@[i] EXCEPT !.raised = ~@]
                             ELSE @[i]],
             !.flagStates = @ \cup hit]

\* collisionStart, the part of one pair that concerns player p
\* variant: the playerType of the flag is not compared
CollisionStartPlayerAnyFlag(s, pair, p) ==
  IF pair.bodyA # Player(p) /\ pair.bodyB # Player(p) THEN s
  ELSE LET otherBody == IF pair.bodyA = Player(p) THEN pair.bodyB
                        ELSE pair.bodyA
           normal == IF pair.bodyA = Player(p) THEN pair.normal
                     ELSE << 0 - pair.normal[1], 0 - pair.normal[2] >>
           hit == { i \in 1..Len(s.flagsRef) :
                      otherBody = Flag(i) /\ ~s.flagsRef[i].raised }
       IN [s EXCEPT
             !.flagsRef = [i \in 1..Len(@) |->
                             IF i \in hit THEN [@[i] EXCEPT !.raised = TRUE]
                             ELSE @[i]],
             !.flagStates = @ \cup hit,
             !.playerGrounded =
               IF ~isSensor(otherBody) /\ 2 * normal[2] < 0 - NormalScale
               THEN [@ EXCEPT ![p] = TRUE] ELSE @]

CollisionStartPlayer(s, pair, p) ==
  IF pair.bodyA # Player(p) /\ pair.bodyB # Player(p) THEN s
  ELSE LET otherBody == IF pair.bodyA = Player(p) THEN pair.bodyB
                        ELSE pair.bodyA
           normal == IF pair.bodyA = Player(p) THEN pair.normal
                     ELSE << 0 - pair.normal[1], 0 - pair.normal[2] >>
           hit == RaisedBy(s.flagsRef, p, otherBody)
       IN [s EXCEPT
             !.flagsRef = [i \in 1..Len(@) |->
                             IF i \in hit THEN [@[i] EXCEPT !.raised = TRUE]
                             ELSE @[i]],
             !.flagStates = @ \cup hit,
             !.playerGrounded =
               IF ~isSensor(otherBody) /\ 2 * normal[2] < 0 - NormalScale
               THEN [@ EXCEPT ![p] = TRUE] ELSE @]

collisionStart(s, pair) ==
  CollisionStartPlayer(CollisionStartPlayer(s, pair, 1), pair, 2)

\* pairs of a player body and a flag sensor, in either body order
PlayerFlagPairs ==
  { [bodyA |-> Player(p), bodyB |-> Flag(i), normal |-> NoNormal] :
      p \in {1, 2}, i \in 1..Len(flagsRef) }
  \cup
  { [bodyA |-> Flag(i), bodyB |-> Player(p), normal |-> NoNormal] :
      p \in {1, 2}, i \in 1..Len(flagsRef) }

FlagContact ==
  /\ engine
  /\ \E pair \in PlayerFlagPairs : Step(collisionStart(Cur, pair))

\* variant: the first qualifying normal is kept
BestNormalFirst(pairs, p, best) ==
  LET F[k \in 0..Len(pairs)] ==
        IF k = 0 THEN best
        ELSE LET pair == pairs[k]
                 otherBody == IF pair.bodyA = Player(p) THEN pair.bodyB
                              ELSE pair.bodyA
                 normal == IF pair.bodyA = Player(p) THEN pair.normal
                           ELSE << 0 - pair.normal[1], 0 - pair.normal[2] >>
             IN IF pair.bodyA # Player(p) /\ pair.bodyB # Player(p)
                THEN F[k - 1]
                ELSE IF isSensor(otherBody) THEN F[k - 1]
                ELSE IF 2 * normal[2] < 0 - NormalScale /\ F[k - 1] = Null
                     THEN normal
                     ELSE F[k - 1]
  IN F[Len(pairs)]

\* collisionActive: the steepest ground normal of player p among the pairs;
\* a pair with a sensor is skipped
BestNormal(pairs, p, best) ==
  LET F[k \in 0..Len(pairs)] ==
        IF k = 0 THEN best
        ELSE LET pair == pairs[k]
                 otherBody == IF pair.bodyA = Player(p) THEN pair.bodyB
                              ELSE pair.bodyA
                 normal == IF pair.bodyA = Player(p) THEN pair.normal
                           ELSE << 0 - pair.normal[1], 0 - pair.normal[2] >>
             IN IF pair.bodyA # Player(p) /\ pair.bodyB # Player(p)
                THEN F[k - 1]
                ELSE IF isSensor(otherBody) THEN F[k - 1]
                ELSE IF /\ 2 * normal[2] < 0 - NormalScale
                        /\ (F[k - 1] = Null \/ normal[2] < F[k - 1][2])
                     THEN normal
                     ELSE F[k - 1]
  IN F[Len(pairs)]

collisionActive(s, pairs) ==
  LET best == [p \in {1, 2} |-> BestNormal(pairs, p, Null)]
  IN [s EXCEPT
        !.playerGrounded = [p \in {1, 2} |-> best[p] # Null],
        !.playerGroundNormal = best,
        !.playerLockedPosition =
          [p \in {1, 2} |-> IF best[p] # Null THEN @[p] ELSE Null]]

\* collisionEnd: every player of an ended pair leaves the ground
collisionEnd(s, pairs) ==
  LET ended == { p \in {1, 2} :
                   \E k \in 1..Len(pairs) :
                     pairs[k].bodyA = Player(p) \/ pairs[k].bodyB = Player(p) }
  IN [s EXCEPT
        !.playerGrounded = [p \in {1, 2} |-> IF p \in ended THEN FALSE ELSE @[p]],
        !.playerGroundNormal = [p \in {1, 2} |-> IF p \in ended THEN Null ELSE @[p]],
        !.playerLockedPosition =
          [p \in {1, 2} |-> IF p \in ended THEN Null ELSE @[p]]]

\* the pairs whose collisionStart raised a flag: a player and its own flag
TouchedFlagPairs ==
  { pair \in PlayerFlagPairs :
      \E i \in 1..Len(flagsRef) :
        /\ flagsRef[i].raised
        /\ Flag(i) \in {pair.bodyA, pair.bodyB}
        /\ Player(flagsRef[i].playerType) \in {pair.bodyA, pair.bodyB} }

\* the engine reports a player that stays inside, or leaves, the sensor of a
\* flag it has touched
FlagContactActive ==
  /\ engine
  /\ \E pair \in TouchedFlagPairs : Step(collisionActive(Cur, << pair >>))

FlagContactEnd ==
  /\ engine
  /\ \E pair \in TouchedFlagPairs : Step(collisionEnd(Cur, << pair >>))

\* ------------------------------------------------------------------------
\* Keyboard controls of the game phase
\* ------------------------------------------------------------------------
\* the keysRef field an e.key value sets, and the player it belongs to
KeyField(key) ==
  CASE key \in {"a", "A"} -> "a"
    [] key \in {"d", "D"} -> "d"
    [] key \in {"w", "W"} -> "w"
    [] key = "ArrowLeft" -> "left"
    [] key = "ArrowRight" -> "right"
    [] key = "ArrowUp" -> "up"
    [] OTHER -> "none"

KeyOwner(key) == IF KeyField(key) \in {"a", "d", "w"} THEN 1 ELSE 2

LeftKey(p) == IF p = 1 THEN "a" ELSE "left"
RightKey(p) == IF p = 1 THEN "d" ELSE "right"
JumpKey(p) == IF p = 1 THEN "w" ELSE "up"

\* variant: the locked position survives the key press
handleKeyDownKeepsLock(s, key) ==
  IF KeyField(key) = "none" THEN s
  ELSE [s EXCEPT !.keysRef = [@ EXCEPT ![KeyField(key)] = TRUE]]

handleKeyDown(s, key) ==
  IF KeyField(key) = "none" THEN s
  ELSE [s EXCEPT !.keysRef = [@ EXCEPT ![KeyField(key)] = TRUE],
                 !.playerLockedPosition = [@ EXCEPT ![KeyOwner(key)] = Null]]

handleKeyUp(s, key) ==
  IF KeyField(key) = "none" THEN s
  ELSE [s EXCEPT !.keysRef = [@ EXCEPT ![KeyField(key)] = FALSE]]

\* ------------------------------------------------------------------------
\* Locomotion controller (gameLoop, on the engine's beforeUpdate)
\* ------------------------------------------------------------------------
\* Matter.Body setters
setVelocity(body, v) == [body EXCEPT !.velocity = v]
setPosition(body, pos) == [body EXCEPT !.position = pos]
setAngularVelocity(body, a) == [body EXCEPT !.angularVelocity = a]
applyForce(body, f) ==
  [body EXCEPT !.force = << @[1] + f[1], @[2] + f[2] >>]

\* variant: half of the tangential velocity survives while the player moves
applySlopeStickHalf(body, groundNormal, isGrounded, moving) ==
  IF groundNormal = Null \/ ~isGrounded THEN body
  ELSE LET tx == 0 - groundNormal[2]
           ty == groundNormal[1]
           vAlong == body.velocity[1] * tx + body.velocity[2] * ty
           kill == IF moving THEN 50 ELSE 100
           den == NormalScale * NormalScale * 100
       IN setVelocity(body,
            << body.velocity[1] - (vAlong * tx * kill) \div den,
               body.velocity[2] - (vAlong * ty * kill) \div den >>)

\* removes the velocity along the ground tangent, all of it when the player
\* does not move and 65% of it when it does
applySlopeStick(body, groundNormal, isGrounded, moving) ==
  IF groundNormal = Null \/ ~isGrounded THEN body
  ELSE LET tx == 0 - groundNormal[2]
           ty == groundNormal[1]
           vAlong == body.velocity[1] * tx + body.velocity[2] * ty
           kill == IF moving THEN movingKill ELSE 100
           den == NormalScale * NormalScale * 100
       IN setVelocity(body,
            << body.velocity[1] - (vAlong * tx * kill) \div den,
               body.velocity[2] - (vAlong * ty * kill) \div den >>)

PlayerMoving(s, p) == s.keysRef[LeftKey(p)] \/ s.keysRef[RightKey(p)]

PlayerNoKeys(s, p) ==
  ~s.keysRef[LeftKey(p)] /\ ~s.keysRef[RightKey(p)] /\ ~s.keysRef[JumpKey(p)]

SlopeStick(s, p) ==
  [s EXCEPT !.playerBody =
     [@ EXCEPT ![p] = applySlopeStick(@, s.playerGroundNormal[p],
                                      s.playerGrounded[p], PlayerMoving(s, p))]]

\* the idle lock: snapshot the position once, then pin the body to it
LockPlayer(s, p) ==
  [s EXCEPT
     !.playerLockedPosition =
       [@ EXCEPT ![p] = IF @ = Null THEN s.playerBody[p].position ELSE @],
     !.playerBody =
       [@ EXCEPT ![p] =
          setAngularVelocity(
            setVelocity(
              setPosition(@, IF s.playerLockedPosition[p] = Null
                             THEN @.position
                             ELSE s.playerLockedPosition[p]),
              << 0, 0 >>),
            0)]]

\* variant: the idle lock takes a new snapshot on every tick
MoveOrLockResnapshot(s, p) ==
  IF s.keysRef[LeftKey(p)]
  THEN [s EXCEPT !.playerBody =
          [@ EXCEPT ![p] = setVelocity(@, << 0 - moveSpeed * VelScale,
                                            @.velocity[2] >>)]]
  ELSE IF s.keysRef[RightKey(p)]
  THEN [s EXCEPT !.playerBody =
          [@ EXCEPT ![p] = setVelocity(@, << moveSpeed * VelScale,
                                            @.velocity[2] >>)]]
  ELSE IF s.playerGrounded[p] /\ PlayerNoKeys(s, p)
  THEN [s EXCEPT
          !.playerLockedPosition = [@ EXCEPT ![p] = s.playerBody[p].position],
          !.playerBody =
            [@ EXCEPT ![p] = setAngularVelocity(setVelocity(@, << 0, 0 >>), 0)]]
  ELSE [s EXCEPT !.playerBody =
          [@ EXCEPT ![p] = setVelocity(@, << (@.velocity[1] * airDamping) \div 10,
                                            @.velocity[2] >>)]]

MoveOrLock(s, p) ==
  IF s.keysRef[LeftKey(p)]
  THEN [s EXCEPT !.playerBody =
          [@ EXCEPT ![p] = setVelocity(@, << 0 - moveSpeed * VelScale,
                                            @.velocity[2] >>)]]
  ELSE IF s.keysRef[RightKey(p)]
  THEN [s EXCEPT !.playerBody =
          [@ EXCEPT ![p] = setVelocity(@, << moveSpeed * VelScale,
                                            @.velocity[2] >>)]]
  ELSE IF s.playerGrounded[p] /\ PlayerNoKeys(s, p)
  THEN LockPlayer(s, p)
  ELSE [s EXCEPT !.playerBody =
          [@ EXCEPT ![p] = setVelocity(@, << (@.velocity[1] * airDamping) \div 10,
                                            @.velocity[2] >>)]]

ClampFall(s, p) ==
  IF s.playerBody[p].velocity[2] > maxFallSpeed * VelScale
  THEN [s EXCEPT !.playerBody =
          [@ EXCEPT ![p] = setVelocity(@, << @.velocity[1],
                                            maxFallSpeed * VelScale >>)]]
  ELSE s

Jump(s, p) ==
  IF s.keysRef[JumpKey(p)] /\ s.playerGrounded[p]
  THEN [s EXCEPT !.playerBody = [@ EXCEPT ![p] = applyForce(@, << 0, jumpForce >>)],
                 !.keysRef = [@ EXCEPT ![JumpKey(p)] = FALSE],
                 !.freshJump = [@ EXCEPT ![p] = FALSE]]
  ELSE s

PlayerTick(s, p) == Jump(ClampFall(MoveOrLock(SlopeStick(s, p), p), p), p)

gameLoop(s) ==
  IF s.playerBody[1] = Null \/ s.playerBody[2] = Null THEN s
  ELSE IF s.gameOverRef THEN s
  ELSE PlayerTick(PlayerTick(s, 1), 2)

\* ------------------------------------------------------------------------
\* Retry and reset buttons
\* ------------------------------------------------------------------------
\* variant: the key states and the controller refs are not reset
handleRetryKeepsController(s) ==
  [s EXCEPT !.gameWon = FALSE,
            !.gameOver = FALSE,
            !.gameOverRef = FALSE,
            !.gameSecondsLeft = gameTime,
            !.flagStates = {},
            !.flagsRef = << >>,
            !.gameRunId = @ + 1]

handleRetry(s) ==
  [s EXCEPT !.gameWon = FALSE,
            !.gameOver = FALSE,
            !.gameOverRef = FALSE,
            !.gameSecondsLeft = gameTime,
            !.keysRef = NoKeys,
            !.playerGrounded = [p \in {1, 2} |-> FALSE],
            !.playerLockedPosition = [p \in {1, 2} |-> Null],
            !.playerGroundNormal = [p \in {1, 2} |-> Null],
            !.flagStates = {},
            !.flagsRef = << >>,
            !.gameRunId = @ + 1]

\* variant: the outcome of the attempt is not cleared
handleResetKeepsOutcome(s) ==
  [s EXCEPT !.keysRef = NoKeys,
            !.flagStates = {},
            !.flagsRef = << >>,
            !.platformLines = << >>,
            !.capturedPoseImage = FALSE,
            !.cameraReady = FALSE,
            !.secondsLeft = poseTime,
            !.phase = "ready"]

\* variant: the key states and the controller refs are not reset
handleResetKeepsController(s) ==
  [s EXCEPT !.gameWon = FALSE,
            !.gameOver = FALSE,
            !.gameOverRef = FALSE,
            !.flagStates = {},
            !.flagsRef = << >>,
            !.platformLines = << >>,
            !.capturedPoseImage = FALSE,
            !.cameraReady = FALSE,
            !.secondsLeft = poseTime,
            !.phase = "ready"]

handleReset(s) ==
  [s EXCEPT !.keysRef = NoKeys,
            !.playerGrounded = [p \in {1, 2} |-> FALSE],
            !.playerLockedPosition = [p \in {1, 2} |-> Null],
            !.playerGroundNormal = [p \in {1, 2} |-> Null],
            !.gameWon = FALSE,
            !.gameOver = FALSE,
            !.gameOverRef = FALSE,
            !.flagStates = {},
            !.flagsRef = << >>,
            !.platformLines = << >>,
            !.capturedPoseImage = FALSE,
            !.cameraReady = FALSE,
            !.secondsLeft = poseTime,
            !.phase = "ready"]

\* the buttons exist while the game phase is rendered
Retry ==
  /\ mounted
  /\ rendered.phase = "game"
  /\ engineStage = "beforeUpdate"
  /\ gameRunId < MaxRuns
  /\ CommitRender(handleRetry(Cur))
  /\ UNCHANGED << pageVars, poseCall, editor, editorAlert, scenarioPlayer, loadLevel, detector, imagesLoaded >>

Reset ==
  /\ mounted
  /\ rendered.phase = "game"
  /\ engineStage = "beforeUpdate"
  /\ CommitRender(handleReset(Cur))
  /\ UNCHANGED << pageVars, poseCall, editor, editorAlert, scenarioPlayer, loadLevel, detector, imagesLoaded >>

\* ------------------------------------------------------------------------
\* Specification of the component's life cycle
\* ------------------------------------------------------------------------
Next ==
  \/ Render
  \/ DetectorLoaded
  \/ ImagesLoaded
  \/ SpaceKey
  \/ GetUserMediaResolved
  \/ GetUserMediaRejected
  \/ LoadedMetadata
  \/ PlayRejected
  \/ EstimateDone
  \/ StaleEstimateDone
  \/ AnimationFrame
  \/ PoseTick
  \/ GameTick
  \/ FlagContact
  \/ FlagContactActive
  \/ FlagContactEnd
  \/ Retry
  \/ Reset

Spec == Init /\ [][Next]_vars

\* a render is scheduled: the guard of Render, that is ENABLED <<Render>>_vars
\* (a commit always changes rendered or mounted)
RenderDue ==
  /\ ~mounted \/ Hooks # rendered
  /\ engineStage = "beforeUpdate"

\* the component of a level with one flag, before its first render
InitLive ==
  /\ loadLevel = AlternatingFlags(1)
  /\ Construction
  /\ poseCall = Null
  /\ editor = Null
  /\ editorAlert = Null
  /\ moveNet = Null
  /\ tileGame = Null

\* the life cycle with its scheduling: an interval that is set keeps firing,
\* and React commits a scheduled render (weak fairness of Render, with its
\* enabling condition written as RenderDue)
SpecLive ==
  /\ InitLive
  /\ [][Next]_vars
  /\ WF_vars(PoseTick)
  /\ WF_vars(GameTick)
  /\ ([]<>~RenderDue \/ []<><<Render>>_vars)

TypeOK ==
  /\ phase \in {"ready", "pose", "game"}
  /\ secondsLeft \in 0..poseTime
  /\ gameSecondsLeft \in 0..gameTime
  /\ gameRunId \in 0..MaxRuns
  /\ camLoop \in {"none", "requesting", "metadata", "estimating", "frame",
                  "halted"}
  /\ rafRef \in {"null", "own", "stale"}
  /\ staleEstimates \in 0..MaxStale

\* ------------------------------------------------------------------------
\* Properties of the life cycle
\* ------------------------------------------------------------------------

\* C1: gameWon is true only while the level has at least one flag and every
\* flag of flagsRef is raised; with one flag per player it is still false
\* when only one of the two flags is raised, and a level without flags
\* never wins.
C1_WinOnlyWhenAllRaised ==
  gameWon =>
    /\ Len(loadLevel) > 0
    /\ Len(flagsRef) = Len(loadLevel)
    /\ \A i \in 1..Len(flagsRef) : flagsRef[i].raised

C1_Witness ==
  /\ gameWon
  /\ Len(loadLevel) >= 2
  /\ \A i \in 1..Len(flagsRef) : i \in flagStates

\* C2: within one attempt (no retry, no reset: gameRunId and the game phase
\* are kept) a raised flag stays raised under every step.
C2_RaisedIsMonotonic ==
  [][(phase = "game" /\ phase' = "game" /\ gameRunId' = gameRunId)
       => \A i \in 1..Len(flagsRef) :
            flagsRef[i].raised
              => (i \in 1..Len(flagsRef') /\ flagsRef'[i].raised)]_vars

C2_Witness ==
  /\ Len(flagsRef) >= 2
  /\ flagsRef[1].raised
  /\ ~flagsRef[2].raised
  /\ gameOver
  /\ rendered = Hooks

\* C3: the win signal fires at most once per attempt, and exactly once when
\* the attempt is won, however long all flags stay raised afterwards.
C3_WinSignalledOnce ==
  /\ winSignals <= 1
  /\ gameWon => winSignals = 1

C3_Witness ==
  /\ gameWon
  /\ winSignals = 1
  /\ gameSecondsLeft = 0
  /\ rendered = Hooks

\* C4: no reachable state has gameWon and gameOver both true.
C4_WonLostExclusive == ~(gameWon /\ gameOver)

\* C5: while the phase (pending or rendered) is ready or pose, gameWon and
\* gameOver are false.
C5_OutcomeOnlyInGame ==
  (phase \in {"ready", "pose"} \/ rendered.phase \in {"ready", "pose"})
    => (~gameWon /\ ~gameOver)

\* a reset after a won attempt
C5_Witness ==
  /\ phase = "ready"
  /\ rendered.phase = "ready"
  /\ winSignals = 1

\* C6: at every entry into the game phase the countdown is at gameTime and
\* gameOver is false, and gameOver is true only once the countdown of the
\* attempt has been decremented gameTime times.
C6_LostOnlyAfterCountdown ==
  engine =>
    /\ attemptTicks = 0 => (gameSecondsLeft = gameTime /\ ~gameOver)
    /\ gameOver => attemptTicks = gameTime

\* C7: once the attempt is won and not lost, no step makes it lost.
C7_NoLossAfterWin ==
  [][(gameWon /\ ~gameOver) => ~gameOver']_vars

\* the countdown ran out after the win and the lose effect has been
\* evaluated on it
C7_Witness ==
  /\ gameWon
  /\ ~gameOver
  /\ gameSecondsLeft = 0
  /\ rendered = Hooks

\* C8: the phase goes from pose to game only at a commit that reads
\* secondsLeft = 0 and cameraReady = TRUE, once per pose phase; cameraReady
\* becomes true only through the loadedmetadata of a stream that was
\* acquired with a detector, the pose countdown runs only with cameraReady,
\* and a dead camera closure is replaced only when the camera effect's
\* dependencies change.
C8_PoseToGame ==
  /\ [](poseTransitions <= 1)
  /\ [](poseTimer => cameraReady)
  /\ [][(phase = "pose" /\ phase' = "game")
          => (secondsLeft = 0 /\ cameraReady)]_vars
  /\ [][(~cameraReady /\ cameraReady')
          => (camLoop = "metadata" /\ streamRef /\ rendered.detector)]_vars
  /\ [][(camLoop = "halted" /\ camLoop' \notin {"halted", "none"})
          => \E dep \in CameraDeps : rendered'[dep] # rendered[dep]]_vars

C8_Witness ==
  /\ rendered.phase = "game"
  /\ poseTransitions = 1
  /\ secondsLeft = 0

\* C9: the phase goes from ready to pose only when the camera is ready and
\* the detector is loaded.
C9_StartOnlyWhenReady ==
  [][(phase = "ready" /\ phase' = "pose") => (cameraReady /\ detector)]_vars

\* C10: platformLines changes only at the pose -> game transition, to the
\* extractor's output on lastPosesRef, and at a reset, to empty; it is
\* empty whenever the phase is ready or pose.
C10_PlatformLinesFrozen ==
  /\ [](phase \in {"ready", "pose"} => platformLines = << >>)
  /\ [][(phase = "pose" /\ phase' = "game")
          => platformLines' = posesToPlatformLines(lastPosesRef, width, height)]_vars
  /\ [][platformLines' # platformLines
          => \/ phase = "pose" /\ phase' = "game"
             \/ phase' = "ready" /\ platformLines' = << >>]_vars

\* a pose estimate completed after the transition with another result
C10_Witness ==
  /\ phase = "game"
  /\ platformLines # << >>
  /\ lastPosesRef = << >>
  /\ gameRunId > 0

\* C13: once the camera closure is torn down (camLoop = "none") its tracks
\* are stopped, and no step writes lastPosesRef or leaves an animation
\* frame id in rafRef.
C13_NoStrayPoseCallback ==
  /\ [](camLoop = "none" => ~streamRef)
  /\ [][camLoop = "none"
          => (lastPosesRef' = lastPosesRef /\ rafRef' = "null")]_vars

\* C14: no state has all flags of a level with flags raised while gameWon
\* is still false.
C14_WinSetWithLastFlag ==
  (engine /\ Len(flagsRef) > 0 /\ \A i \in 1..Len(flagsRef) : flagsRef[i].raised)
    => gameWon

\* ------------------------------------------------------------------------
\* Specification of the controller: one attempt of the game phase, driven
\* by the keys and the contacts of one player.  Engine.update calls, in this
\* order, beforeUpdate (gameLoop), the integration of the bodies,
\* collisionStart, collisionActive and collisionEnd; an event with no pair
\* is not triggered.  Key events, clicks and React commits fall between two
\* updates.
\* ------------------------------------------------------------------------
\* contact normals, oriented from the player: flat ground, a slope, a wall
Normals == { << 0, 0 - 10 >>, << 6, 0 - 8 >>, << 10, 0 >> }

\* pairs of player p and a platform body, in either body order
PlatformPairs(p) ==
  { [bodyA |-> Player(p), bodyB |-> Platform, normal |-> n] : n \in Normals }
  \cup
  { [bodyA |-> Platform, bodyB |-> Player(p),
     normal |-> << 0 - n[1], 0 - n[2] >>] : n \in Normals }

\* pairs of player p and a flag sensor
FlagPairs(p) ==
  { pair \in PlayerFlagPairs : Player(p) \in {pair.bodyA, pair.bodyB} }

\* event.pairs of one event: no pair, one pair, or two platform pairs
StartedPairs(p) ==
  { << >> } \cup { << pair >> : pair \in PlatformPairs(p) \cup FlagPairs(p) }

ActivePairs(p) ==
  StartedPairs(p)
  \cup { << pair, other >> : pair \in PlatformPairs(p),
                             other \in PlatformPairs(p) }

\* where the integration can leave the body, and with which motion
BodyPositions(p) ==
  { Spawn(p), << Spawn(p)[1] + 3, Spawn(p)[2] + 4 >> }

BodyMotions ==
  { [velocity |-> << 0, 0 >>, angularVelocity |-> 0],
    [velocity |-> << 2 * VelScale, 16 * VelScale >>, angularVelocity |-> 1] }

\* Body.update and Engine._bodiesClearForces of one Engine.update
Integrate(s, p, pos, motion) ==
  [s EXCEPT !.playerBody =
     [@ EXCEPT ![p] = [position |-> pos, velocity |-> motion.velocity,
                       angularVelocity |-> motion.angularVelocity,
                       force |-> << 0, 0 >>]]]

\* event.pairs.forEach of the collisionStart listener
collisionStartEvent(s, pairs) ==
  LET F[k \in 0..Len(pairs)] ==
        IF k = 0 THEN s ELSE collisionStart(F[k - 1], pairs[k])
  IN F[Len(pairs)]

PlayerKeys(p) ==
  IF p = 1 THEN {"a", "d", "w"} ELSE {"ArrowLeft", "ArrowRight", "ArrowUp"}

\* keydown: of a key that was up, or the repeat of a held key
KeyDown ==
  /\ engine
  /\ engineStage = "beforeUpdate"
  /\ \E key \in PlayerKeys(scenarioPlayer) :
       Step([handleKeyDown(Cur, key) EXCEPT
               !.keysDown = @ \cup {key},
               !.freshJump =
                 [@ EXCEPT ![KeyOwner(key)] =
                    IF KeyField(key) = JumpKey(KeyOwner(key))
                       /\ key \notin keysDown
                    THEN TRUE ELSE @]])

KeyUp ==
  /\ engine
  /\ engineStage = "beforeUpdate"
  /\ \E key \in keysDown :
       Step([handleKeyUp(Cur, key) EXCEPT
               !.keysDown = @ \ {key},
               !.freshJump =
                 [@ EXCEPT ![KeyOwner(key)] =
                    IF KeyField(key) = JumpKey(KeyOwner(key))
                    THEN FALSE ELSE @]])

\* the run of idle ticks of player p after a tick from s to t
NextRun(run, s, t, p, counts) ==
  IF ~(counts /\ s.playerGrounded[p] /\ PlayerNoKeys(s, p)) THEN Null
  ELSE IF run = Null
  THEN [position |-> t.playerBody[p].position, again |-> FALSE]
  ELSE [run EXCEPT !.again = TRUE]

TickHistory(s, t) ==
  [t EXCEPT
     !.idleRun = [p \in {1, 2} |-> NextRun(s.idleRun[p], s, t, p, TRUE)],
     !.quietRun = [p \in {1, 2} |->
                     NextRun(s.quietRun[p], s, t, p, ~s.gameOverRef)]]

BeforeUpdate ==
  /\ engine
  /\ engineStage = "beforeUpdate"
  /\ Step([gameLoop(Cur) EXCEPT !.engineStage = "collisionStart"])

CollisionStartEvent ==
  /\ engine
  /\ engineStage = "collisionStart"
  /\ \E pos \in BodyPositions(scenarioPlayer), motion \in BodyMotions,
        pairs \in StartedPairs(scenarioPlayer) :
       Step([collisionStartEvent(
               Integrate(Cur, scenarioPlayer, pos, motion), pairs)
             EXCEPT !.engineStage = "collisionActive"])

CollisionActiveEvent ==
  /\ engine
  /\ engineStage = "collisionActive"
  /\ \E pairs \in ActivePairs(scenarioPlayer) :
       Step([(IF pairs = << >> THEN Cur ELSE collisionActive(Cur, pairs))
             EXCEPT !.engineStage = "collisionEnd"])

CollisionEndEvent ==
  /\ engine
  /\ engineStage = "collisionEnd"
  /\ \E pairs \in StartedPairs(scenarioPlayer) :
       Step([collisionEnd(Cur, pairs) EXCEPT !.engineStage = "beforeUpdate"])

\* the attempt the run starts in
Attempts == {"running", "lost", "won"}

InitCtl ==
  /\ scenarioPlayer \in {1, 2}
  /\ loadLevel = AlternatingFlags(MaxFlags)
  /\ detector = TRUE
  /\ imagesLoaded = FALSE
  /\ phase = "game"
  /\ cameraReady = TRUE
  /\ secondsLeft = 0
  /\ lastPosesRef = << ArmsPose(600, 300) >>
  /\ platformLines = posesToPlatformLines(lastPosesRef, width, height)
  /\ capturedPoseImage = TRUE
  /\ gameRunId = MaxRuns - 1
  /\ \E attempt \in Attempts :
       /\ gameOver = (attempt = "lost")
       /\ gameWon = (attempt = "won")
       /\ gameSecondsLeft = IF attempt = "lost" THEN 0 ELSE gameTime
       /\ attemptTicks = IF attempt = "lost" THEN gameTime ELSE 0
       /\ winSignals = IF attempt = "won" THEN 1 ELSE 0
       /\ flagsRef = [i \in 1..Len(loadLevel) |->
                        [playerType |-> loadLevel[i],
                         raised |-> (attempt = "won")]]
       /\ flagStates = IF attempt = "won" THEN 1..Len(loadLevel) ELSE {}
  /\ gameOverRef = gameOver
  /\ rendered = Hooks
  /\ mounted = TRUE
  /\ streamRef = FALSE
  /\ rafRef = "null"
  /\ keysRef = NoKeys
  /\ playerGrounded = [p \in {1, 2} |-> FALSE]
  /\ playerGroundNormal = [p \in {1, 2} |-> Null]
  /\ playerLockedPosition = [p \in {1, 2} |-> Null]
  /\ playerBody = [p \in {1, 2} |-> SpawnBody(p)]
  /\ spaceListener = FALSE
  /\ camLoop = "none"
  /\ staleEstimates = 0
  /\ poseTimer = FALSE
  /\ gameTimer = TRUE
  /\ engine = TRUE
  /\ engineStage = "beforeUpdate"
  /\ poseTransitions = 1
  /\ keysDown = {}
  /\ freshJump = [p \in {1, 2} |-> FALSE]
  /\ idleRun = [p \in {1, 2} |-> Null]
  /\ quietRun = [p \in {1, 2} |-> Null]
  /\ poseCall = Null
  /\ editor = Null
  /\ editorAlert = Null
  /\ moveNet = Null
  /\ tileGame = Null

NextCtl ==
  \/ KeyDown
  \/ KeyUp
  \/ BeforeUpdate
  \/ CollisionStartEvent
  \/ CollisionActiveEvent
  \/ CollisionEndEvent
  \/ Render
  \/ Retry
  \/ Reset

SpecCtl == InitCtl /\ [][NextCtl]_vars

\* ------------------------------------------------------------------------
\* Specification of the idle lock: the controller within one attempt, with
\* the runs of idle ticks recorded
\* ------------------------------------------------------------------------
KeyDownTracked ==
  /\ engine
  /\ engineStage = "beforeUpdate"
  /\ \E key \in PlayerKeys(scenarioPlayer) :
       Step([handleKeyDown(Cur, key) EXCEPT
               !.keysDown = @ \cup {key},
               !.quietRun = [@ EXCEPT ![KeyOwner(key)] = Null],
               !.freshJump =
                 [@ EXCEPT ![KeyOwner(key)] =
                    IF KeyField(key) = JumpKey(KeyOwner(key))
                       /\ key \notin keysDown
                    THEN TRUE ELSE @]])

BeforeUpdateTracked ==
  /\ engine
  /\ engineStage = "beforeUpdate"
  /\ Step([TickHistory(Cur, gameLoop(Cur))
           EXCEPT !.engineStage = "collisionStart"])

InitIdle == InitCtl /\ ~gameWon

NextIdle ==
  \/ KeyDownTracked
  \/ KeyUp
  \/ BeforeUpdateTracked
  \/ CollisionStartEvent
  \/ CollisionActiveEvent
  \/ CollisionEndEvent

SpecIdle == InitIdle /\ [][NextIdle]_vars

\* ------------------------------------------------------------------------
\* Specification of the pose helpers: one call of quant, segKey,
\* pickTopPoses or posesToPlatformLines, from its arguments to its result
\* ------------------------------------------------------------------------
\* coordinates: the multiples of half a quantisation step around 0
HalfSteps == { k * (quantStep \div 2) : k \in (0 - MaxCoord)..MaxCoord }

\* one coordinate per pixel of that range
Pixels == (0 - MaxCoord * (quantStep \div 2))..(MaxCoord * (quantStep \div 2))

Points == { [x |-> x, y |-> y] : x \in HalfSteps, y \in {0, 9} }

\* the frames of at most MaxPoses people, nobody twice
PoseLists ==
  { poses \in UNION { [1..k -> People] : k \in 0..MaxPoses } :
      \A i \in 1..Len(poses), j \in 1..Len(poses) :
        i # j => poses[i] # poses[j] }

Call(fn, args) == [fn |-> fn, args |-> args, returned |-> FALSE, result |-> Null]

Calls ==
  { Call("quant", << n >>) : n \in Pixels }
  \cup { Call("segKey", << a, b >>) : a \in Points, b \in Points }
  \cup { Call("pickTopPoses", << poses, n >>) :
           poses \in PoseLists, n \in 0..(MaxPoses + 1) }
  \cup { Call("posesToPlatformLines", << poses, width, height >>) :
           poses \in PoseLists }

Return(result) ==
  /\ poseCall' = [poseCall EXCEPT !.returned = TRUE, !.result = result]
  /\ UNCHANGED << gameVars, pageVars, editor, editorAlert >>

QuantReturns ==
  /\ poseCall # Null
  /\ poseCall.fn = "quant"
  /\ ~poseCall.returned
  /\ Return(quant(poseCall.args[1]))

SegKeyReturns ==
  /\ poseCall # Null
  /\ poseCall.fn = "segKey"
  /\ ~poseCall.returned
  /\ Return(segKey(poseCall.args[1], poseCall.args[2]))

PickTopPosesReturns ==
  /\ poseCall # Null
  /\ poseCall.fn = "pickTopPoses"
  /\ ~poseCall.returned
  /\ Return(pickTopPoses(poseCall.args[1], poseCall.args[2]))

PosesToPlatformLinesReturns ==
  /\ poseCall # Null
  /\ poseCall.fn = "posesToPlatformLines"
  /\ ~poseCall.returned
  /\ Return(posesToPlatformLines(poseCall.args[1], poseCall.args[2],
                                  poseCall.args[3]))

InitPose ==
  /\ Unmounted
  /\ loadLevel = AlternatingFlags(0)
  /\ poseCall \in Calls
  /\ editor = Null
  /\ editorAlert = Null
  /\ moveNet = Null
  /\ tileGame = Null

NextPose ==
  \/ QuantReturns
  \/ SegKeyReturns
  \/ PickTopPosesReturns
  \/ PosesToPlatformLinesReturns

SpecPose == InitPose /\ [][NextPose]_vars

\* ------------------------------------------------------------------------
\* The level editor (LevelCreator). Coordinates are in thousandths of a
\* pixel: a click lands on a fraction of a pixel when the canvas is laid
\* out on one. Thicknesses and sprite sizes are in pixels, as in the source.
\* ------------------------------------------------------------------------
PLATFORM_THICKNESS == 10
FLAG_WIDTH == 3
FLAG_HEIGHT == 2

ToolModes ==
  { "select", "temporaryPlatform", "permanentPlatform", "ground",
    "player1Spawn", "player2Spawn", "player1Flag", "player2Flag", "delete" }

PlatformTools == { "temporaryPlatform", "permanentPlatform", "ground" }

r2Tenth(n) == ((n + 50) \div 100) * 100

\* Math.round(n * 100) / 100: the nearest hundredth, a half going up
r2(n) == ((n + 5) \div 10) * 10

r2Point(p) == [x |-> r2(p.x), y |-> r2(p.y)]

\* the bodies of the editor's world, each with what Matter derives its
\* shape from
makePlatformFromEndpoints(start, end, thickness, type) ==
  [label |-> "platform", start |-> start, end |-> end,
   thickness |-> thickness, type |-> type]

FlagBody(x, y, playerType) ==
  [label |-> "flag", position |-> [x |-> x, y |-> y], playerType |-> playerType]

createSpawnMarker(x, y, playerType) ==
  [label |-> "spawnMarker", position |-> [x |-> x, y |-> y],
   playerType |-> playerType]

PlayerBody(spawn, playerType) ==
  [label |-> "player", position |-> spawn, playerType |-> playerType]

\* body.bounds of a platform that lies along the x axis, the only platforms
\* the clicks and files below make
PlatformBounds(body) ==
  [min |-> [x |-> Min(body.start.x, body.end.x),
            y |-> body.start.y - body.thickness * 500],
   max |-> [x |-> IF body.start.x < body.end.x THEN body.end.x
                  ELSE body.start.x,
            y |-> body.start.y + body.thickness * 500]]

\* Matter.Query.point: the bodies whose shape holds the point, in the order
\* of world.bodies. A platform of length 0 has no area, its vertices are
\* not numbers and it holds no point; a flag is a rectangle around its
\* position; a marker is a circle of radius 15, tested here for the points
\* of the square of side 20 inside it (the clicks below are in that square
\* or outside the circle).
BodyHolds(body, pt) ==
  IF body.label = "platform" THEN
    /\ body.start # body.end
    /\ body.start.y = body.end.y
    /\ PlatformBounds(body).min.x <= pt.x
    /\ pt.x <= PlatformBounds(body).max.x
    /\ PlatformBounds(body).min.y <= pt.y
    /\ pt.y <= PlatformBounds(body).max.y
  ELSE IF body.label = "flag" THEN
    /\ body.position.x - FLAG_WIDTH * 500 <= pt.x
    /\ pt.x <= body.position.x + FLAG_WIDTH * 500
    /\ body.position.y - FLAG_HEIGHT * 500 <= pt.y
    /\ pt.y <= body.position.y + FLAG_HEIGHT * 500
  ELSE IF body.label = "spawnMarker" THEN
    /\ body.position.x - 10000 <= pt.x
    /\ pt.x <= body.position.x + 10000
    /\ body.position.y - 10000 <= pt.y
    /\ pt.y <= body.position.y + 10000
  ELSE FALSE

QueryPoint(bodies, pt) == SelectSeq(bodies, LAMBDA body : BodyHolds(body, pt))

\* Array.prototype.findIndex for the first entry that is body, and
\* splice(index, 1), on 1-based sequences
FindIndex(bodies, body) ==
  IF \E i \in 1..Len(bodies) : bodies[i] = body
  THEN CHOOSE i \in 1..Len(bodies) :
         bodies[i] = body /\ \A j \in 1..(i - 1) : bodies[j] # body
  ELSE 0

Splice(seq, index) ==
  [i \in 1..(Len(seq) - 1) |-> IF i < index THEN seq[i] ELSE seq[i + 1]]

\* Matter.World.remove: the body leaves world.bodies
WorldRemove(bodies, body) ==
  Splice(bodies, FindIndex(bodies, body))

\* the editor when it is first shown, its engine and renderer created
EditorOpened ==
  [toolMode |-> "select", firstClickPoint |-> Null,
   attemptStarted |-> FALSE, gameWon |-> FALSE,
   platformsRef |-> << >>, flagsRef |-> << >>,
   player1SpawnRef |-> Null, player2SpawnRef |-> Null,
   player1SpawnMarkerRef |-> Null, player2SpawnMarkerRef |-> Null,
   world |-> << >>, saved |-> Null]

\* buildLevel: the level that is saved and logged
buildLevelKeepsTemporary(e) ==
  [platforms |->
     [i \in 1..Len(e.platformsRef) |->
        [start |-> r2Point(e.platformsRef[i].meta.start),
         end |-> r2Point(e.platformsRef[i].meta.end),
         thickness |-> e.platformsRef[i].meta.thickness,
         type |-> e.platformsRef[i].type]],
   flags |->
     [i \in 1..Len(e.flagsRef) |->
        [playerType |-> e.flagsRef[i].playerType,
         flag |-> r2Point(e.flagsRef[i].flag.position),
         raised |-> FALSE]],
   player1Spawn |-> IF e.player1SpawnRef # Null
                    THEN r2Point(e.player1SpawnRef) ELSE Null,
   player2Spawn |-> IF e.player2SpawnRef # Null
                    THEN r2Point(e.player2SpawnRef) ELSE Null]

buildLevel(e) ==
  LET kept == SelectSeq(e.platformsRef, LAMBDA p : p.type # "temporary")
  IN [platforms |->
        [i \in 1..Len(kept) |->
           [start |-> r2Point(kept[i].meta.start),
            end |-> r2Point(kept[i].meta.end),
            thickness |-> kept[i].meta.thickness,
            type |-> kept[i].type]],
      flags |->
        [i \in 1..Len(e.flagsRef) |->
           [playerType |-> e.flagsRef[i].playerType,
            flag |-> r2Point(e.flagsRef[i].flag.position),
            raised |-> FALSE]],
      player1Spawn |-> IF e.player1SpawnRef # Null
                       THEN r2Point(e.player1SpawnRef) ELSE Null,
      player2Spawn |-> IF e.player2SpawnRef # Null
                       THEN r2Point(e.player2SpawnRef) ELSE Null]

\* checkElementsBelowGround: no spawn point and no flag lies under a ground
\* platform
checkElementsBelowGround(e) ==
  LET groundPlatforms == SelectSeq(e.platformsRef, LAMBDA p : p.type = "ground")
      pointsToCheck ==
        (IF e.player1SpawnRef # Null THEN << e.player1SpawnRef >> ELSE << >>)
        \o (IF e.player2SpawnRef # Null THEN << e.player2SpawnRef >> ELSE << >>)
        \o [i \in 1..Len(e.flagsRef) |-> e.flagsRef[i].flag.position]
  IN \A k \in 1..Len(pointsToCheck), g \in 1..Len(groundPlatforms) :
       LET point == pointsToCheck[k]
           bounds == PlatformBounds(groundPlatforms[g].body)
       IN ~(/\ point.x >= bounds.min.x
            /\ point.x <= bounds.max.x
            /\ point.y > bounds.max.y)

\* handleAttemptClear: with both spawn points, a flag for each player and
\* nothing below ground, the players enter the world and the attempt starts
\* variant: the attempt starts without the check against the ground
handleAttemptClearNoGroundCheck(e) ==
  IF e.player1SpawnRef = Null THEN e
  ELSE IF e.player2SpawnRef = Null THEN e
  ELSE IF ~\E i \in 1..Len(e.flagsRef) : e.flagsRef[i].playerType = 1 THEN e
  ELSE IF ~\E i \in 1..Len(e.flagsRef) : e.flagsRef[i].playerType = 2 THEN e
  ELSE [e EXCEPT !.world = @ \o << PlayerBody(e.player1SpawnRef, 1),
                                   PlayerBody(e.player2SpawnRef, 2) >>,
                 !.attemptStarted = TRUE]

handleAttemptClear(e) ==
  IF e.player1SpawnRef = Null THEN e
  ELSE IF e.player2SpawnRef = Null THEN e
  ELSE IF ~\E i \in 1..Len(e.flagsRef) : e.flagsRef[i].playerType = 1 THEN e
  ELSE IF ~\E i \in 1..Len(e.flagsRef) : e.flagsRef[i].playerType = 2 THEN e
  ELSE IF ~checkElementsBelowGround(e) THEN e
  ELSE [e EXCEPT !.world = @ \o << PlayerBody(e.player1SpawnRef, 1),
                                   PlayerBody(e.player2SpawnRef, 2) >>,
                 !.attemptStarted = TRUE]

\* loadLevelHandler: the platforms, flags and spawn markers of the editor
\* leave the world and the refs, then those of the file take their place,
\* as far as the handler gets before it throws: the platforms when the
\* file has them, then the flags, spawn points and markers when it has
\* flags as well
loadLevelHandler(e, levelData) ==
  LET cleared == SelectSeq(e.world, LAMBDA b : b.label = "player")
      hasPlatforms == "platforms" \in DOMAIN levelData
      loaded == hasPlatforms /\ "flags" \in DOMAIN levelData
      platforms ==
        IF hasPlatforms THEN
          [i \in 1..Len(levelData.platforms) |->
             LET p == levelData.platforms[i]
             IN [body |-> makePlatformFromEndpoints(p.start, p.end,
                                                    p.thickness, p.type),
                 type |-> p.type,
                 meta |-> [start |-> p.start, end |-> p.end,
                           thickness |-> p.thickness]]]
        ELSE << >>
      flags ==
        IF loaded THEN
          [i \in 1..Len(levelData.flags) |->
             LET f == levelData.flags[i]
             IN [flag |-> FlagBody(f.flag.x, f.flag.y, f.playerType),
                 raised |-> FALSE,
                 playerType |-> f.playerType]]
        ELSE << >>
      marker1 == IF loaded /\ levelData.player1Spawn # Null
                 THEN createSpawnMarker(levelData.player1Spawn.x,
                                        levelData.player1Spawn.y, 1)
                 ELSE Null
      marker2 == IF loaded /\ levelData.player2Spawn # Null
                 THEN createSpawnMarker(levelData.player2Spawn.x,
                                        levelData.player2Spawn.y, 2)
                 ELSE Null
  IN [e EXCEPT
        !.platformsRef = platforms,
        !.flagsRef = flags,
        !.player1SpawnRef = IF loaded THEN levelData.player1Spawn ELSE @,
        !.player2SpawnRef = IF loaded THEN levelData.player2Spawn ELSE @,
        !.player1SpawnMarkerRef = marker1,
        !.player2SpawnMarkerRef = marker2,
        !.world = cleared
                  \o [i \in 1..Len(platforms) |-> platforms[i].body]
                  \o [i \in 1..Len(flags) |-> flags[i].flag]
                  \o (IF marker1 # Null THEN << marker1 >> ELSE << >>)
                  \o (IF marker2 # Null THEN << marker2 >> ELSE << >>)]

\* levelData.platforms.forEach and levelData.flags.forEach throw a
\* TypeError when the parsed object has no such array
LoadThrows(levelData) ==
  ~("platforms" \in DOMAIN levelData /\ "flags" \in DOMAIN levelData)

\* the delete tool: the first body under the click that is a platform, a
\* flag or a spawn marker goes, and nothing after it
RECURSIVE DeleteLoop(_, _)
DeleteLoop(e, bodies) ==
  IF bodies = << >> THEN e
  ELSE
    LET body == Head(bodies)
        platformIndex ==
          FindIndex([i \in 1..Len(e.platformsRef) |-> e.platformsRef[i].body],
                    body)
        flagIndex ==
          FindIndex([i \in 1..Len(e.flagsRef) |-> e.flagsRef[i].flag], body)
    IN IF platformIndex # 0 THEN
         [e EXCEPT !.world = WorldRemove(@, body),
                   !.platformsRef = Splice(@, platformIndex)]
       ELSE IF flagIndex # 0 THEN
         [e EXCEPT !.world = WorldRemove(@, body),
                   !.flagsRef = Splice(@, flagIndex)]
       ELSE IF body = e.player1SpawnMarkerRef THEN
         [e EXCEPT !.world = WorldRemove(@, body),
                   !.player1SpawnMarkerRef = Null,
                   !.player1SpawnRef = Null]
       ELSE IF body = e.player2SpawnMarkerRef THEN
         [e EXCEPT !.world = WorldRemove(@, body),
                   !.player2SpawnMarkerRef = Null,
                   !.player2SpawnRef = Null]
       ELSE DeleteLoop(e, Tail(bodies))

platformTypeOf(toolMode) ==
  IF toolMode = "temporaryPlatform" THEN "temporary"
  ELSE IF toolMode = "permanentPlatform" THEN "permanent"
  ELSE "ground"

\* the spawn tools: the player's spawn point moves to the click and a new
\* marker replaces the old one
SetSpawn1(e, pt) ==
  LET marker == createSpawnMarker(pt.x, pt.y, 1)
  IN [e EXCEPT !.player1SpawnRef = pt,
               !.world = (IF e.player1SpawnMarkerRef # Null
                          THEN WorldRemove(@, e.player1SpawnMarkerRef)
                          ELSE @) \o << marker >>,
               !.player1SpawnMarkerRef = marker]

SetSpawn2(e, pt) ==
  LET marker == createSpawnMarker(pt.x, pt.y, 2)
  IN [e EXCEPT !.player2SpawnRef = pt,
               !.world = (IF e.player2SpawnMarkerRef # Null
                          THEN WorldRemove(@, e.player2SpawnMarkerRef)
                          ELSE @) \o << marker >>,
               !.player2SpawnMarkerRef = marker]

AddFlag(e, pt, playerType) ==
  LET flag == FlagBody(pt.x, pt.y, playerType)
  IN [e EXCEPT !.world = Append(@, flag),
               !.flagsRef = Append(@, [flag |-> flag, raised |-> FALSE,
                                       playerType |-> playerType])]

\* handleCanvasClick: a click on the canvas at pt
\* variant: the second click of a platform tool keeps the pending point
handleCanvasClickKeepsPending(e, pt) ==
  IF e.gameWon \/ e.attemptStarted THEN e
  ELSE IF e.toolMode \in PlatformTools THEN
    IF e.firstClickPoint = Null THEN [e EXCEPT !.firstClickPoint = pt]
    ELSE
      LET start == e.firstClickPoint
          platformType == platformTypeOf(e.toolMode)
          platform == makePlatformFromEndpoints(start, pt, PLATFORM_THICKNESS,
                                                platformType)
      IN [e EXCEPT
            !.world = Append(@, platform),
            !.platformsRef =
              Append(@, [body |-> platform,
                         type |-> platformType,
                         meta |-> [start |-> start, end |-> pt,
                                   thickness |-> PLATFORM_THICKNESS]])]
  ELSE IF e.toolMode = "player1Spawn" THEN SetSpawn1(e, pt)
  ELSE IF e.toolMode = "player2Spawn" THEN SetSpawn2(e, pt)
  ELSE IF e.toolMode = "player1Flag" THEN AddFlag(e, pt, 1)
  ELSE IF e.toolMode = "player2Flag" THEN AddFlag(e, pt, 2)
  ELSE IF e.toolMode = "delete" THEN DeleteLoop(e, QueryPoint(e.world, pt))
  ELSE e

handleCanvasClick(e, pt) ==
  IF e.gameWon \/ e.attemptStarted THEN e
  ELSE IF e.toolMode \in PlatformTools THEN
    IF e.firstClickPoint = Null THEN [e EXCEPT !.firstClickPoint = pt]
    ELSE
      LET start == e.firstClickPoint
          platformType == platformTypeOf(e.toolMode)
          platform == makePlatformFromEndpoints(start, pt, PLATFORM_THICKNESS,
                                                platformType)
      IN [e EXCEPT
            !.world = Append(@, platform),
            !.platformsRef =
              Append(@, [body |-> platform,
                         type |-> platformType,
                         meta |-> [start |-> start, end |-> pt,
                                   thickness |-> PLATFORM_THICKNESS]]),
            !.firstClickPoint = Null]
  ELSE IF e.toolMode = "player1Spawn" THEN SetSpawn1(e, pt)
  ELSE IF e.toolMode = "player2Spawn" THEN SetSpawn2(e, pt)
  ELSE IF e.toolMode = "player1Flag" THEN AddFlag(e, pt, 1)
  ELSE IF e.toolMode = "player2Flag" THEN AddFlag(e, pt, 2)
  ELSE IF e.toolMode = "delete" THEN DeleteLoop(e, QueryPoint(e.world, pt))
  ELSE e

\* the collisionStart handler of the editor's engine, for the flags: a
\* player's touch raises the flags of that player that are still lowered
RaiseTouched(e, touched) ==
  [e EXCEPT !.flagsRef =
     [i \in 1..Len(e.flagsRef) |->
        IF << e.flagsRef[i].playerType, i >> \in touched
        THEN [e.flagsRef[i] EXCEPT !.raised = TRUE]
        ELSE e.flagsRef[i]]]

\* level files offered to the Load button: a level of two flags and two
\* spawn points without platforms, as buildLevel writes it, and a file
\* edited by hand whose first platform is typed temporary
FlagsOnlyLevel ==
  [platforms |-> << >>,
   flags |-> << [playerType |-> 1, flag |-> [x |-> 200000, y |-> 100000],
                 raised |-> FALSE],
                [playerType |-> 2, flag |-> [x |-> 400000, y |-> 100000],
                 raised |-> FALSE] >>,
   player1Spawn |-> [x |-> 200000, y |-> 200000],
   player2Spawn |-> [x |-> 400000, y |-> 200000]]

EditedFile ==
  [platforms |-> << [start |-> [x |-> 100000, y |-> 300000],
                     end |-> [x |-> 500000, y |-> 300000],
                     thickness |-> PLATFORM_THICKNESS, type |-> "temporary"],
                    [start |-> [x |-> 100000, y |-> 300000],
                     end |-> [x |-> 300000, y |-> 300000],
                     thickness |-> PLATFORM_THICKNESS, type |-> "permanent"] >>,
   flags |-> << >>,
   player1Spawn |-> Null,
   player2Spawn |-> Null]

\* a level that can be played, with coordinates of two decimals, saved by
\* an editor that wrote the first flag as raised
GroundLevel ==
  [platforms |-> << [start |-> [x |-> 100250, y |-> 300000],
                     end |-> [x |-> 500000, y |-> 300000],
                     thickness |-> PLATFORM_THICKNESS, type |-> "ground"] >>,
   flags |-> << [playerType |-> 1, flag |-> [x |-> 200000, y |-> 100010],
                 raised |-> TRUE],
                [playerType |-> 2, flag |-> [x |-> 400000, y |-> 100000],
                 raised |-> FALSE] >>,
   player1Spawn |-> [x |-> 200000, y |-> 200020],
   player2Spawn |-> [x |-> 400000, y |-> 200000]]

\* a level without platforms whose second flag stands low on the canvas
SunkLevel ==
  [platforms |-> << >>,
   flags |-> << [playerType |-> 1, flag |-> [x |-> 200000, y |-> 100000],
                 raised |-> FALSE],
                [playerType |-> 2, flag |-> [x |-> 400000, y |-> 400000],
                 raised |-> FALSE] >>,
   player1Spawn |-> [x |-> 200000, y |-> 200000],
   player2Spawn |-> [x |-> 400000, y |-> 200000]]

LevelFiles == { FlagsOnlyLevel, EditedFile, GroundLevel, SunkLevel }

\* files that are no levels: JSON objects without a platforms array and
\* without a flags array, and a file that is not JSON
NoPlatformsFile == [flags |-> << >>]

NoFlagsFile ==
  [platforms |-> << [start |-> [x |-> 100000, y |-> 300000],
                     end |-> [x |-> 300000, y |-> 300000],
                     thickness |-> PLATFORM_THICKNESS, type |-> "permanent"] >>]

\* the files the user picks in the file dialog
Files ==
  { "flagsOnly.json", "edited.json", "ground.json", "sunk.json",
    "noPlatforms.json",
    "noFlags.json", "notes.txt" }

\* JSON.parse of the text of a file, which throws on text that is not JSON
ParseThrows(file) == file = "notes.txt"

JSONparse(file) ==
  CASE file = "flagsOnly.json" -> FlagsOnlyLevel
    [] file = "edited.json" -> EditedFile
    [] file = "ground.json" -> GroundLevel
    [] file = "sunk.json" -> SunkLevel
    [] file = "noPlatforms.json" -> NoPlatformsFile
    [] file = "noFlags.json" -> NoFlagsFile

\* reader.onload of handleFileSelect: parse the file and load it; an
\* exception of either ends the handler where it is and is answered with
\* an alert
handleFileSelect(e, file) ==
  IF ParseThrows(file) THEN e ELSE loadLevelHandler(e, JSONparse(file))

FileSelectAlert(file) ==
  IF ParseThrows(file) \/ LoadThrows(JSONparse(file))
  THEN << "Error loading level file. Please ensure it's a valid JSON file." >>
  ELSE Null

\* the alert of handleAttemptClear, when it has one
\* the name checkElementsBelowGround gives the first point it finds below a
\* ground platform
BelowGroundName(e) ==
  LET groundPlatforms == SelectSeq(e.platformsRef, LAMBDA p : p.type = "ground")
      pointsToCheck ==
        (IF e.player1SpawnRef # Null
         THEN << [point |-> e.player1SpawnRef, name |-> "Player 1 spawn"] >>
         ELSE << >>)
        \o (IF e.player2SpawnRef # Null
            THEN << [point |-> e.player2SpawnRef, name |-> "Player 2 spawn"] >>
            ELSE << >>)
        \o [i \in 1..Len(e.flagsRef) |->
              [point |-> e.flagsRef[i].flag.position,
               name |-> "Player " \o ToString(e.flagsRef[i].playerType)
                        \o " flag " \o ToString(i)]]
      below == { k \in 1..Len(pointsToCheck) :
                   \E g \in 1..Len(groundPlatforms) :
                     /\ pointsToCheck[k].point.x
                          >= PlatformBounds(groundPlatforms[g].body).min.x
                     /\ pointsToCheck[k].point.x
                          <= PlatformBounds(groundPlatforms[g].body).max.x
                     /\ pointsToCheck[k].point.y
                          > PlatformBounds(groundPlatforms[g].body).max.y }
  IN pointsToCheck[CHOOSE k \in below : \A j \in below : k <= j].name

AttemptClearAlert(e) ==
  IF e.player1SpawnRef = Null
  THEN << "Error: Player 1 spawn point is not set!" >>
  ELSE IF e.player2SpawnRef = Null
  THEN << "Error: Player 2 spawn point is not set!" >>
  ELSE IF ~\E i \in 1..Len(e.flagsRef) : e.flagsRef[i].playerType = 1
  THEN << "Error: At least one Player 1 flag is required!" >>
  ELSE IF ~\E i \in 1..Len(e.flagsRef) : e.flagsRef[i].playerType = 2
  THEN << "Error: At least one Player 2 flag is required!" >>
  ELSE IF ~checkElementsBelowGround(e)
  THEN << "Error: " \o BelowGroundName(e)
          \o " is below ground! Please reposition it." >>
  ELSE Null

\* the tools the user picks: the platform tools and the delete tool; flags
\* and spawn points come from FlagsOnlyLevel
ToolsTried == PlatformTools \cup { "select", "delete" }

\* where the user clicks: platforms are drawn from a point off the grid of
\* hundredths to one of two points to its right; the delete tool is used
\* on a point of either half of that line and on the first flag of
\* FlagsOnlyLevel
StartAt == { [x |-> 100125, y |-> 300000] }

EndAt == { [x |-> 300000, y |-> 300000], [x |-> 500000, y |-> 300000] }

DeleteAt ==
  { [x |-> 200000, y |-> 300000], [x |-> 400000, y |-> 300000],
    [x |-> 200000, y |-> 100000] }

ClicksOf(e) ==
  IF e.toolMode = "delete" THEN DeleteAt
  ELSE IF e.firstClickPoint = Null THEN StartAt
  ELSE EndAt

\* window.alert is modal: no handler of the page runs until the user has
\* closed it
DismissAlert ==
  /\ editorAlert # Null
  /\ editorAlert' = Null
  /\ UNCHANGED << gameVars, pageVars, poseCall, editor >>

\* a tool button: setToolMode and setFirstClickPoint(null)
SelectTool(mode) ==
  /\ editor # Null
  /\ editorAlert = Null
  /\ editor' = [editor EXCEPT !.toolMode = mode, !.firstClickPoint = Null]
  /\ UNCHANGED << gameVars, pageVars, poseCall, editorAlert >>

\* a click on the canvas; the editor holds at most MaxPlatforms platforms
CanvasClick(pt) ==
  /\ editor # Null
  /\ editorAlert = Null
  /\ pt \in ClicksOf(editor)
  /\ Len(handleCanvasClick(editor, pt).platformsRef) <= MaxPlatforms
  /\ editor' = handleCanvasClick(editor, pt)
  /\ UNCHANGED << gameVars, pageVars, poseCall, editorAlert >>

\* handleFileSelect: the Load button (disabled during an attempt) and the
\* file dialog hand a file to a FileReader, whose onload parses it and
\* calls loadLevelHandler; the file is read before the next event
FileSelect(file) ==
  /\ editor # Null
  /\ editorAlert = Null
  /\ ~editor.attemptStarted
  /\ editor' = handleFileSelect(editor, file)
  /\ editorAlert' = FileSelectAlert(file)
  /\ UNCHANGED << gameVars, pageVars, poseCall >>

\* the Attempt Clear button, disabled once the attempt has started
AttemptClear ==
  /\ editor # Null
  /\ editorAlert = Null
  /\ ~editor.attemptStarted
  /\ editor' = handleAttemptClear(editor)
  /\ editorAlert' = AttemptClearAlert(editor)
  /\ UNCHANGED << gameVars, pageVars, poseCall >>

\* collisionStart with the pairs of a player and a flag in touched
EditorCollisionStart(touched) ==
  /\ editor # Null
  /\ editorAlert = Null
  /\ editor.attemptStarted
  /\ touched # {}
  /\ editor' = RaiseTouched(editor, touched)
  /\ UNCHANGED << gameVars, pageVars, poseCall, editorAlert >>

\* the win effect: every flag of a started attempt is raised
EditorWinEffect ==
  /\ editor # Null
  /\ editorAlert = Null
  /\ editor.attemptStarted
  /\ Len(editor.flagsRef) > 0
  /\ \A i \in 1..Len(editor.flagsRef) : editor.flagsRef[i].raised
  /\ ~editor.gameWon
  /\ editor' = [editor EXCEPT !.gameWon = TRUE]
  /\ UNCHANGED << gameVars, pageVars, poseCall, editorAlert >>

\* handleSaveLevel: the Save button of a cleared level writes buildLevel()
SaveLevel ==
  /\ editor # Null
  /\ editorAlert = Null
  /\ editor.gameWon
  /\ editor' = [editor EXCEPT !.saved = buildLevel(editor)]
  /\ editorAlert' = << "Level saved as custom_level.json" >>
  /\ UNCHANGED << gameVars, pageVars, poseCall >>

InitEditor ==
  /\ Unmounted
  /\ loadLevel = AlternatingFlags(0)
  /\ poseCall = Null
  /\ editor = EditorOpened
  /\ editorAlert = Null
  /\ moveNet = Null
  /\ tileGame = Null

NextEditor ==
  \/ \E mode \in ToolsTried : SelectTool(mode)
  \/ \E pt \in StartAt \cup EndAt \cup DeleteAt : CanvasClick(pt)
  \/ \E file \in Files : FileSelect(file)
  \/ AttemptClear
  \/ DismissAlert
  \/ \E touched \in SUBSET ({1, 2} \X (1..Len(editor.flagsRef))) :
       EditorCollisionStart(touched)
  \/ EditorWinEffect
  \/ SaveLevel

SpecEditor == InitEditor /\ [][NextEditor]_vars

\* ------------------------------------------------------------------------
\* The detector module (lib/detector.ts) and its callers
\* ------------------------------------------------------------------------
\* a promise is its index in moveNet.promises, 0 stands for null; its entry
\* is the await its async body has reached, or how it settled
Pending == {"tfReady", "setBackend", "createDetector"}

\* the components that ask for the detector: PoseDetectorProvider (its
\* effect) and App (loadModelAndStart), by turns
CallerKind(i) == IF i % 2 = 1 THEN "provider" ELSE "app"

\* a component before its effect ran; calledAt records the state of the
\* promise at the moment the component received it
NotMounted ==
  [pc |-> "unmounted", promise |-> 0, calledAt |-> "never",
   detector |-> 0, isLoading |-> TRUE, error |-> FALSE]

\* the module after its import: let detectorPromise = null
ModuleLoaded ==
  [detectorPromise |-> 0, promises |-> << >>, createCalls |-> 0,
   callers |-> [i \in 1..MaxCallers |-> NotMounted]]

\* variant: a rejected promise is replaced by a new creation
getMoveNetDetectorRetries(m) ==
  IF m.detectorPromise = 0 \/ m.promises[m.detectorPromise] = "rejected"
  THEN [m EXCEPT !.promises = Append(@, "tfReady"),
                 !.detectorPromise = Len(m.promises) + 1]
  ELSE m

\* getMoveNetDetector: the first call starts the async body, which runs to
\* its first await; the promise returned is detectorPromise of the result
getMoveNetDetector(m) ==
  IF m.detectorPromise = 0
  THEN [m EXCEPT !.promises = Append(@, "tfReady"),
                 !.detectorPromise = Len(m.promises) + 1]
  ELSE m

\* caller i calls getMoveNetDetector and awaits the promise
AwaitDetector(m, i) ==
  [getMoveNetDetector(m) EXCEPT
     !.callers[i].pc = "awaiting",
     !.callers[i].promise = getMoveNetDetector(m).detectorPromise,
     !.callers[i].calledAt =
       IF m.detectorPromise = 0 THEN "tfReady"
       ELSE m.promises[m.detectorPromise]]

\* the catch and finally blocks of initDetector
InitDetectorFailed(m, i) ==
  [m EXCEPT !.callers[i].pc = "failed",
            !.callers[i].error = TRUE,
            !.callers[i].isLoading = FALSE]

\* the effect of PoseDetectorProvider: initDetector runs to its first await
ProviderEffect(i) ==
  /\ moveNet # Null
  /\ CallerKind(i) = "provider"
  /\ moveNet.callers[i].pc = "unmounted"
  /\ moveNet' = [moveNet EXCEPT !.callers[i].pc = "tfReady"]
  /\ UNCHANGED << gameVars, poseCall, editor, editorAlert, tileGame >>

\* initDetector past its own tf.ready() and tf.setBackend(), either of which
\* may throw; after them it calls getMoveNetDetector
InitDetectorStep(i, ok) ==
  /\ moveNet # Null
  /\ moveNet.callers[i].pc \in {"tfReady", "setBackend"}
  /\ moveNet' =
       IF ~ok THEN InitDetectorFailed(moveNet, i)
       ELSE IF moveNet.callers[i].pc = "tfReady"
       THEN [moveNet EXCEPT !.callers[i].pc = "setBackend"]
       ELSE AwaitDetector(moveNet, i)
  /\ UNCHANGED << gameVars, poseCall, editor, editorAlert, tileGame >>

\* the effect of App: loadModelAndStart calls getMoveNetDetector at once
loadModelAndStart(i) ==
  /\ moveNet # Null
  /\ CallerKind(i) = "app"
  /\ moveNet.callers[i].pc = "unmounted"
  /\ moveNet' = AwaitDetector(moveNet, i)
  /\ UNCHANGED << gameVars, poseCall, editor, editorAlert, tileGame >>

\* the async body of promise k passes an await, or throws there;
\* poseDetection.createDetector is called after tf.setBackend
BodyStep(k, ok) ==
  /\ moveNet # Null
  /\ k \in 1..Len(moveNet.promises)
  /\ moveNet.promises[k] \in Pending
  /\ moveNet' =
       IF ~ok THEN [moveNet EXCEPT !.promises[k] = "rejected"]
       ELSE IF moveNet.promises[k] = "tfReady"
       THEN [moveNet EXCEPT !.promises[k] = "setBackend"]
       ELSE IF moveNet.promises[k] = "setBackend"
       THEN [moveNet EXCEPT !.promises[k] = "createDetector",
                            !.createCalls = @ + 1]
       ELSE [moveNet EXCEPT !.promises[k] = "fulfilled"]
  /\ UNCHANGED << gameVars, poseCall, editor, editorAlert, tileGame >>

\* caller i continues after its await once the promise has settled
DetectorSettled(i) ==
  /\ moveNet # Null
  /\ moveNet.callers[i].pc = "awaiting"
  /\ moveNet.promises[moveNet.callers[i].promise] \notin Pending
  /\ moveNet' =
       IF moveNet.promises[moveNet.callers[i].promise] = "rejected"
       THEN IF CallerKind(i) = "provider"
            THEN InitDetectorFailed(moveNet, i)
            ELSE [moveNet EXCEPT !.callers[i].pc = "failed"]
       ELSE [moveNet EXCEPT
               !.callers[i].pc = "loaded",
               !.callers[i].detector = moveNet.callers[i].promise,
               !.callers[i].isLoading = FALSE]
  /\ UNCHANGED << gameVars, poseCall, editor, editorAlert, tileGame >>

InitDetector ==
  /\ Unmounted
  /\ loadLevel = AlternatingFlags(0)
  /\ poseCall = Null
  /\ editor = Null
  /\ editorAlert = Null
  /\ moveNet = ModuleLoaded
  /\ tileGame = Null

NextDetector ==
  \/ \E i \in 1..MaxCallers : ProviderEffect(i)
  \/ \E i \in 1..MaxCallers, ok \in BOOLEAN : InitDetectorStep(i, ok)
  \/ \E i \in 1..MaxCallers : loadModelAndStart(i)
  \/ \E k \in 1..MaxCallers, ok \in BOOLEAN : BodyStep(k, ok)
  \/ \E i \in 1..MaxCallers : DetectorSettled(i)

SpecDetector == InitDetector /\ [][NextDetector]_vars

\* ------------------------------------------------------------------------
\* The tile-map variant (pages/game.tsx)
\* ------------------------------------------------------------------------
LevelTypes == {"easy", "medium", "hard"}

\* the level layouts, one string per row, as their characters
easyMap ==
  << << "=", " ", " ", " ", " ", " ", " ", " ", " ", " ", " ", " ", " ",
        " ", " ", " ", " ", " ", " ", " ", " ", " ", " ", " ", " ", " ",
        " ", " ", " ", " ", " ", " ", " ", " ", " ", " ", " ", " ", "=" >>,
     << "=", " ", " ", " ", " ", " ", " ", " ", " ", " ", " ", " ", " ",
        " ", " ", " ", " ", " ", " ", " ", " ", " ", " ", " ", " ", " ",
        " ", " ", " ", " ", " ", " ", " ", " ", " ", " ", " ", " ", "=" >>,
     << "=", " ", " ", " ", " ", " ", " ", " ", " ", " ", " ", " ", " ",
        " ", " ", " ", " ", " ", " ", " ", " ", " ", " ", " ", " ", " ",
        " ", " ", " ", " ", " ", " ", " ", " ", " ", " ", " ", " ", "=" >>,
     << "=", " ", " ", "1", " ", " ", " ", " ", " ", " ", " ", " ", " ",
        " ", " ", " ", " ", " ", " ", " ", " ", " ", " ", " ", " ", " ",
        " ", " ", " ", " ", " ", " ", " ", " ", "2", " ", " ", " ", "=" >>,
     << "=", "=", "=", " ", " ", " ", " ", "=", "=", "=", " ", " ", " ",
        " ", " ", " ", " ", " ", " ", " ", " ", " ", " ", " ", " ", " ",
        " ", " ", " ", "=", "=", "=", " ", " ", " ", " ", "=", "=", "=" >>,
     << "=", " ", " ", " ", " ", " ", " ", " ", " ", " ", " ", " ", " ",
        " ", " ", " ", " ", " ", " ", " ", " ", " ", " ", " ", " ", " ",
        " ", " ", " ", " ", " ", " ", " ", " ", " ", " ", " ", " ", "=" >>,
     << "=", " ", " ", " ", " ", " ", " ", " ", " ", " ", "=", "=", "=",
        " ", " ", " ", " ", " ", " ", " ", " ", " ", " ", " ", " ", " ",
        "=", "=", "=", " ", " ", " ", " ", " ", " ", " ", " ", " ", "=" >>,
     << "=", " ", " ", " ", " ", " ", " ", " ", " ", " ", " ", " ", " ",
        " ", " ", " ", " ", " ", " ", " ", " ", " ", " ", " ", " ", " ",
        " ", " ", " ", " ", " ", " ", " ", " ", " ", " ", " ", " ", "=" >>,
     << "=", "F", "1", " ", " ", " ", " ", " ", " ", " ", " ", " ", " ",
        " ", " ", " ", " ", " ", " ", " ", " ", " ", " ", " ", " ", " ",
        " ", " ", " ", " ", " ", " ", " ", "F", "2", " ", " ", " ", "=" >>,
     << "=", "=", "=", "=", "=", "=", "=", "=", "=", "=", "=", "=", "=",
        "=", "=", "=", "=", "=", "=", "=", "=", "=", "=", "=", "=", "=",
        "=", "=", "=", "=", "=", "=", "=", "=", "=", "=", "=", "=", "=" >> >>

mediumMap ==
  << << "=", " ", " ", " ", " ", " ", " ", " ", " ", " ", " ", " ", " ",
        " ", " ", " ", " ", " ", " ", " ", " ", " ", " ", " ", " ", " ",
        " ", " ", " ", " ", " ", " ", " ", " ", " ", " ", " ", " ", "=" >>,
     << "=", " ", " ", " ", " ", " ", " ", " ", " ", " ", " ", " ", " ",
        " ", " ", " ", " ", " ", " ", " ", " ", " ", " ", " ", " ", " ",
        " ", " ", " ", " ", " ", " ", " ", " ", " ", " ", " ", " ", "=" >>,
     << "=", " ", " ", "1", " ", " ", " ", " ", " ", " ", " ", " ", " ",
        " ", " ", " ", " ", " ", " ", " ", " ", " ", " ", " ", " ", " ",
        " ", " ", " ", " ", " ", " ", " ", " ", "2", " ", " ", " ", "=" >>,
     << "=", "=", "=", "=", "=", " ", " ", " ", " ", " ", " ", " ", " ",
        " ", " ", " ", " ", " ", " ", " ", " ", " ", " ", " ", " ", " ",
        " ", " ", " ", " ", " ", "=", "=", "=", "=", "=", "=", "=", "=" >>,
     << "=", " ", " ", " ", " ", " ", " ", " ", " ", " ", " ", " ", " ",
        " ", " ", " ", " ", " ", " ", " ", " ", " ", " ", " ", " ", " ",
        " ", " ", " ", " ", " ", " ", " ", " ", " ", " ", " ", " ", "=" >>,
     << "=", " ", " ", " ", " ", " ", " ", "=", "=", "=", "=", " ", " ",
        " ", " ", " ", " ", " ", " ", " ", " ", " ", "=", "=", "=", "=",
        " ", " ", " ", " ", " ", " ", " ", " ", " ", " ", " ", " ", "=" >>,
     << "=", " ", " ", " ", " ", " ", " ", " ", " ", " ", " ", " ", " ",
        " ", " ", " ", " ", " ", " ", " ", " ", " ", " ", " ", " ", " ",
        " ", " ", " ", " ", " ", " ", " ", " ", " ", " ", " ", " ", "=" >>,
     << "=", " ", " ", " ", " ", " ", " ", " ", " ", " ", " ", " ", "=",
        "=", "=", "=", " ", " ", " ", "=", "=", "=", "=", " ", " ", " ",
        " ", " ", " ", " ", " ", " ", " ", " ", " ", " ", " ", " ", "=" >>,
     << "=", "F", "1", " ", " ", " ", " ", " ", " ", " ", " ", " ", " ",
        " ", " ", " ", " ", " ", " ", " ", " ", " ", " ", " ", " ", " ",
        " ", " ", " ", " ", " ", " ", " ", "F", "2", " ", " ", " ", "=" >>,
     << "=", "=", "=", "=", "=", "=", "=", "=", "=", "=", "=", "=", "=",
        "=", "=", "=", "=", "=", "=", "=", "=", "=", "=", "=", "=", "=",
        "=", "=", "=", "=", "=", "=", "=", "=", "=", "=", "=", "=", "=" >> >>

hardMap ==
  << << "=", " ", " ", " ", " ", " ", " ", " ", " ", " ", " ", " ", " ",
        " ", " ", " ", " ", " ", " ", " ", " ", " ", " ", " ", " ", " ",
        " ", " ", " ", " ", " ", " ", " ", " ", " ", " ", " ", " ", "=" >>,
     << "=", " ", " ", "1", " ", " ", " ", " ", " ", " ", " ", " ", " ",
        " ", " ", " ", " ", " ", " ", " ", " ", " ", " ", " ", " ", " ",
        " ", " ", " ", " ", " ", " ", " ", " ", "2", " ", " ", " ", "=" >>,
     << "=", "=", "=", "=", " ", " ", " ", " ", " ", " ", " ", " ", " ",
        " ", " ", " ", " ", " ", " ", " ", " ", " ", " ", " ", " ", " ",
        " ", " ", " ", " ", " ", " ", " ", " ", "=", "=", "=", "=", "=" >>,
     << "=", " ", " ", " ", " ", " ", " ", " ", " ", " ", " ", " ", " ",
        " ", " ", " ", " ", " ", " ", " ", " ", " ", " ", " ", " ", " ",
        " ", " ", " ", " ", " ", " ", " ", " ", " ", " ", " ", " ", "=" >>,
     << "=", " ", " ", " ", " ", "=", "=", "=", " ", " ", " ", " ", " ",
        " ", " ", " ", " ", " ", " ", " ", " ", " ", " ", " ", " ", " ",
        " ", " ", "=", "=", "=", " ", " ", " ", " ", " ", " ", " ", "=" >>,
     << "=", " ", " ", " ", " ", " ", " ", " ", " ", " ", " ", " ", " ",
        " ", " ", " ", " ", " ", " ", " ", " ", " ", " ", " ", " ", " ",
        " ", " ", " ", " ", " ", " ", " ", " ", " ", " ", " ", " ", "=" >>,
     << "=", " ", " ", " ", " ", " ", " ", " ", " ", " ", "=", "=", "=",
        " ", " ", " ", " ", " ", " ", " ", " ", " ", " ", "=", "=", "=",
        " ", " ", " ", " ", " ", " ", " ", " ", " ", " ", " ", " ", "=" >>,
     << "=", " ", " ", " ", " ", " ", " ", " ", " ", " ", " ", " ", " ",
        " ", " ", " ", " ", " ", " ", " ", " ", " ", " ", " ", " ", " ",
        " ", " ", " ", " ", " ", " ", " ", " ", " ", " ", " ", " ", "=" >>,
     << "=", "F", "1", " ", " ", "=", "=", "=", " ", " ", " ", " ", " ",
        "=", "=", "=", " ", " ", "=", "=", "=", " ", " ", " ", " ", " ",
        " ", " ", "=", "=", "=", " ", " ", " ", "F", "2", " ", " ", "=" >>,
     << "=", "=", "=", "=", "=", "=", "=", "=", "=", "=", "=", "=", "=",
        "=", "=", "=", "=", "=", "=", "=", "=", "=", "=", "=", "=", "=",
        "=", "=", "=", "=", "=", "=", "=", "=", "=", "=", "=", "=", "=" >> >>

levels == [easy |-> easyMap, medium |-> mediumMap, hard |-> hardMap]

\* let timer = 60, and setTimeLeft(60)
StartTime == 60

\* the game objects the scene adds for the character at a cell: the chain of
\* comparisons of char, which is levelMap[row][col]
AddTile(char, row, col) ==
  IF char = "=" THEN << [tag |-> "wall", row |-> row, col |-> col] >>
  ELSE IF char = "1" THEN << [tag |-> "player1", row |-> row, col |-> col] >>
  ELSE IF char = "2" THEN << [tag |-> "player2", row |-> row, col |-> col] >>
  ELSE IF char = "F1"
  THEN << [tag |-> "flag1", row |-> row, col |-> col],
          [tag |-> "pole", row |-> row, col |-> col] >>
  ELSE IF char = "F2"
  THEN << [tag |-> "flag2", row |-> row, col |-> col],
          [tag |-> "pole", row |-> row, col |-> col] >>
  ELSE << >>

\* the inner loop of the scene: the objects of one row, by column
AddRow(levelMap, row) ==
  LET F[col \in 0..Len(levelMap[row])] ==
        IF col = 0 THEN << >>
        ELSE F[col - 1] \o AddTile(levelMap[row][col], row - 1, col - 1)
  IN F[Len(levelMap[row])]

\* the outer loop of the scene: the objects of the level, by row
AddLevel(levelMap) ==
  LET F[row \in 0..Len(levelMap)] ==
        IF row = 0 THEN << >> ELSE F[row - 1] \o AddRow(levelMap, row)
  IN F[Len(levelMap)]

\* k.get(tag)
Get(objects, tag) == SelectSeq(objects, LAMBDA o : o.tag = tag)

PlayerTag(p) == IF p = 1 THEN "player1" ELSE "player2"
FlagTag(p) == IF p = 1 THEN "flag1" ELSE "flag2"

\* k.go('game'): the scene function runs again, on an empty scene; the
\* players it gets stand at their cells
GoGame(g) ==
  [g EXCEPT !.objects = AddLevel(levels[g.level]),
            !.shift = [p \in {1, 2} |-> 0],
            !.airborne = [p \in {1, 2} |-> FALSE]]

\* GamePage of a level after its first render, the kaboom script loading
GamePageOpened(level) ==
  [level |-> level, gameState |-> "playing", timeLeft |-> StartTime,
   gameRef |-> FALSE, objects |-> << >>,
   player1ReachedFlag |-> FALSE, player2ReachedFlag |-> FALSE,
   gameEnded |-> FALSE, timer |-> StartTime,
   shift |-> [p \in {1, 2} |-> 0], airborne |-> [p \in {1, 2} |-> FALSE]]

\* initGame: creates the kaboom context, declares the player states and the
\* timer, defines the scene and goes to it
initGame(g) ==
  IF g.gameRef THEN g
  ELSE GoGame([g EXCEPT !.gameRef = TRUE,
                        !.player1ReachedFlag = FALSE,
                        !.player2ReachedFlag = FALSE,
                        !.gameEnded = FALSE,
                        !.timer = StartTime])

\* the callback of k.loop(1, ...)
timerLoop(g) ==
  IF g.gameEnded THEN g
  ELSE IF g.timer - 1 <= 0
  THEN [g EXCEPT !.timer = @ - 1, !.timeLeft = g.timer - 1,
                 !.gameEnded = TRUE, !.gameState = "lost"]
  ELSE [g EXCEPT !.timer = @ - 1, !.timeLeft = g.timer - 1]

Reached(g, p) ==
  IF p = 1 THEN g.player1ReachedFlag ELSE g.player2ReachedFlag

TileKeys == {"a", "d", "w", "left", "right", "up"}
TileKeyOwner(key) == IF key \in {"a", "d", "w"} THEN 1 ELSE 2

\* the onKeyDown and onKeyPress handlers; they are registered only for a
\* player the scene holds
onKey(g, key) ==
  IF Get(g.objects, PlayerTag(TileKeyOwner(key))) = << >> THEN g
  ELSE IF Reached(g, TileKeyOwner(key)) \/ g.gameEnded THEN g
  ELSE IF key \in {"a", "left"}
  THEN [g EXCEPT !.shift[TileKeyOwner(key)] = @ - 1]
  ELSE IF key \in {"d", "right"}
  THEN [g EXCEPT !.shift[TileKeyOwner(key)] = @ + 1]
  ELSE IF ~g.airborne[TileKeyOwner(key)]
  THEN [g EXCEPT !.airborne[TileKeyOwner(key)] = TRUE]
  ELSE g

checkWinCondition(g) ==
  IF g.player1ReachedFlag /\ g.player2ReachedFlag /\ ~g.gameEnded
  THEN [g EXCEPT !.gameEnded = TRUE, !.gameState = "won"]
  ELSE g

\* the onCollide handler of player p with its flag
onCollideFlag(g, p) ==
  IF Reached(g, p) THEN g
  ELSE IF p = 1
  THEN checkWinCondition([g EXCEPT !.player1ReachedFlag = TRUE])
  ELSE checkWinCondition([g EXCEPT !.player2ReachedFlag = TRUE])

\* the players the engine can report on their flag: the scene holds the
\* player and an object with the tag of its flag
CanCollide(g) ==
  { p \in {1, 2} : Get(g.objects, PlayerTag(p)) # << >>
                    /\ Get(g.objects, FlagTag(p)) # << >> }

handleTryAgain(g) ==
  GoGame([g EXCEPT !.gameState = "playing", !.timeLeft = StartTime])

\* script.onload
ScriptLoaded ==
  /\ tileGame # Null
  /\ ~tileGame.gameRef
  /\ tileGame' = initGame(tileGame)
  /\ UNCHANGED << gameVars, poseCall, editor, editorAlert, moveNet >>

TimerLoop ==
  /\ tileGame # Null
  /\ tileGame.gameRef
  /\ tileGame' = timerLoop(tileGame)
  /\ UNCHANGED << gameVars, poseCall, editor, editorAlert, moveNet >>

TileKey(key) ==
  /\ tileGame # Null
  /\ tileGame.gameRef
  /\ \A p \in {1, 2} : onKey(tileGame, key).shift[p] \in (0 - MaxShift)..MaxShift
  /\ tileGame' = onKey(tileGame, key)
  /\ UNCHANGED << gameVars, poseCall, editor, editorAlert, moveNet >>

\* a frame of the engine: players in the air may land, and a player the
\* engine finds on its flag gets its onCollide handler called
TileUpdate(landed, hit) ==
  /\ tileGame # Null
  /\ tileGame.gameRef
  /\ landed \subseteq { p \in {1, 2} : tileGame.airborne[p] }
  /\ hit \subseteq CanCollide(tileGame)
  /\ tileGame' =
       [(IF 2 \in hit
         THEN onCollideFlag(IF 1 \in hit THEN onCollideFlag(tileGame, 1)
                            ELSE tileGame, 2)
         ELSE IF 1 \in hit THEN onCollideFlag(tileGame, 1)
         ELSE tileGame)
        EXCEPT !.airborne = [p \in {1, 2} |-> @[p] /\ p \notin landed]]
  /\ UNCHANGED << gameVars, poseCall, editor, editorAlert, moveNet >>

\* the Try Again button of the lost overlay
TryAgain ==
  /\ tileGame # Null
  /\ tileGame.gameState = "lost"
  /\ tileGame' = handleTryAgain(tileGame)
  /\ UNCHANGED << gameVars, poseCall, editor, editorAlert, moveNet >>

InitTile ==
  /\ Unmounted
  /\ loadLevel = AlternatingFlags(0)
  /\ poseCall = Null
  /\ editor = Null
  /\ editorAlert = Null
  /\ moveNet = Null
  /\ \E level \in LevelTypes : tileGame = GamePageOpened(level)

NextTile ==
  \/ ScriptLoaded
  \/ TimerLoop
  \/ \E key \in TileKeys : TileKey(key)
  \/ \E landed \in SUBSET {1, 2}, hit \in SUBSET {1, 2} : TileUpdate(landed, hit)
  \/ TryAgain

SpecTile == InitTile /\ [][NextTile]_vars

\* ------------------------------------------------------------------------
\* Properties of the controller
\* ------------------------------------------------------------------------

\* C11: a retry (the step that changes gameRunId), from a won, a lost or a
\* running attempt, keeps the game phase, the frozen platform set and the
\* level, and leaves a fresh attempt: gameWon and gameOver false, the level's
\* flags all lowered and the raised-state map empty, the countdown running
\* from gameTime, the six key states false, grounded, ground normal and
\* locked position of both players cleared, and a rebuilt world whose player
\* bodies rest at the spawn points.
C11_RetryResetsAttempt ==
  [][gameRunId' # gameRunId =>
       /\ phase = "game" /\ phase' = "game"
       /\ platformLines' = platformLines
       /\ loadLevel' = loadLevel
       /\ ~gameWon' /\ ~gameOver' /\ ~gameOverRef'
       /\ Len(flagsRef') = Len(loadLevel)
       /\ \A i \in 1..Len(flagsRef') :
            /\ flagsRef'[i].playerType = loadLevel[i]
            /\ ~flagsRef'[i].raised
       /\ flagStates' = {}
       /\ gameSecondsLeft' = gameTime
       /\ gameTimer'
       /\ \A k \in DOMAIN keysRef' : ~keysRef'[k]
       /\ \A p \in {1, 2} :
            /\ ~playerGrounded'[p]
            /\ playerGroundNormal'[p] = Null
            /\ playerLockedPosition'[p] = Null
            /\ playerBody'[p].position = Spawn(p)
            /\ playerBody'[p].velocity = << 0, 0 >>
            /\ playerBody'[p].force = << 0, 0 >>
       /\ engine'
       /\ engineStage' = "beforeUpdate"
       /\ rendered'.gameRunId = gameRunId'
  ]_vars

\* a retry clicked while a key was held: the key is still down, its state
\* has been reset
C11_Witness ==
  /\ gameRunId = MaxRuns
  /\ phase = "game"
  /\ engine
  /\ keysDown # {}
  /\ \A k \in DOMAIN keysRef : ~keysRef[k]
  /\ playerBody[scenarioPlayer] = SpawnBody(scenarioPlayer)
  /\ platformLines # << >>

\* C12: a reset (the step that leaves the game phase), from a won, a lost or
\* a running attempt, goes to the ready phase, discards the frozen platform
\* set and the captured image, clears gameWon, gameOver, the flags, the key
\* states and the controller refs, sets cameraReady false and the pose
\* countdown to poseTime, and disposes the world: what is left is the ready
\* phase waiting for its start signal.
C12_ResetDiscardsAttempt ==
  [][(phase = "game" /\ phase' # "game") =>
       /\ phase' = "ready"
       /\ platformLines' = << >>
       /\ ~capturedPoseImage'
       /\ ~gameWon' /\ ~gameOver' /\ ~gameOverRef'
       /\ flagsRef' = << >>
       /\ flagStates' = {}
       /\ \A k \in DOMAIN keysRef' : ~keysRef'[k]
       /\ \A p \in {1, 2} :
            /\ ~playerGrounded'[p]
            /\ playerGroundNormal'[p] = Null
            /\ playerLockedPosition'[p] = Null
       /\ ~cameraReady'
       /\ secondsLeft' = poseTime
       /\ ~engine' /\ ~gameTimer' /\ ~poseTimer'
       /\ spaceListener'
       /\ rendered'.phase = "ready"
  ]_vars

\* a reset clicked while a key was held and the player had left its spawn
\* point
C12_Witness ==
  /\ phase = "ready"
  /\ mounted
  /\ keysDown # {}
  /\ playerBody[scenarioPlayer].position # Spawn(scenarioPlayer)
  /\ \A k \in DOMAIN keysRef : ~keysRef[k]
  /\ platformLines = << >>

\* the pairs a contact callback can be called with
AnyPairs ==
  PlayerFlagPairs \cup PlatformPairs(1) \cup PlatformPairs(2)
  \cup { [bodyA |-> Player(1), bodyB |-> Player(2), normal |-> n] :
           n \in Normals }

\* C15: when the collisionStart callback is due, whatever pair it is called
\* with, it raises flag i only for the pair of the sensor of flag
\* i and the body of the player flagsRef[i].playerType, in either body
\* order, and only when the flag is lowered; for every other pair (the other
\* player on that sensor, a raised flag, a platform, the two players) the
\* raised states and the raised-state map stay as they are.  In the runs of
\* one player a flag is raised only by the collisionStart callback and only
\* when that player owns it.
C15_RaisedByOwnerOnly ==
  /\ [](\A pair \in IF engineStage = "collisionStart" THEN AnyPairs ELSE {} :
          LET own == { i \in 1..Len(flagsRef) :
                         /\ ~flagsRef[i].raised
                         /\ {pair.bodyA, pair.bodyB} =
                              {Flag(i), Player(flagsRef[i].playerType)} }
              after == collisionStart(Cur, pair)
          IN /\ Len(after.flagsRef) = Len(flagsRef)
             /\ \A i \in 1..Len(flagsRef) :
                  /\ after.flagsRef[i].playerType = flagsRef[i].playerType
                  /\ after.flagsRef[i].raised =
                       (flagsRef[i].raised \/ i \in own)
             /\ after.flagStates = flagStates \cup own)
  /\ [][\A i \in 1..Len(flagsRef) :
          (/\ gameRunId' = gameRunId
           /\ phase' = "game"
           /\ ~flagsRef[i].raised
           /\ flagsRef'[i].raised) =>
            /\ engineStage = "collisionStart"
            /\ flagsRef[i].playerType = scenarioPlayer
            /\ flagStates' = flagStates \cup {i}]_vars

\* player 2 has raised its flag; the flag of player 1 is still lowered
C15_Witness ==
  /\ scenarioPlayer = 2
  /\ engineStage = "collisionActive"
  /\ \E i \in 1..Len(flagsRef) :
       /\ flagsRef[i].playerType = 2
       /\ flagsRef[i].raised
       /\ i \in flagStates
  /\ \E j \in 1..Len(flagsRef) : ~flagsRef[j].raised

\* C16: after the second and every later tick of a run of consecutive ticks
\* at which the player was grounded and had no key state set, the body is at
\* the position it had after the first tick of the run, with zero linear and
\* angular velocity.
C16_IdleLockPinned ==
  \A p \in {1, 2} :
    (/\ engine
     /\ engineStage = "collisionStart"
     /\ idleRun[p] # Null
     /\ idleRun[p].again) =>
      /\ playerBody[p].position = idleRun[p].position
      /\ playerBody[p].velocity = << 0, 0 >>
      /\ playerBody[p].angularVelocity = 0

\* C16 for the runs of ticks on which gameLoop acts (the attempt is not
\* lost) and between which no keydown of the player arrives
C16_QuietIdleLockPinned ==
  \A p \in {1, 2} :
    (/\ engine
     /\ engineStage = "collisionStart"
     /\ quietRun[p] # Null
     /\ quietRun[p].again) =>
      /\ playerBody[p].position = quietRun[p].position
      /\ playerBody[p].velocity = << 0, 0 >>
      /\ playerBody[p].angularVelocity = 0
      /\ playerLockedPosition[p] = quietRun[p].position

\* a second idle tick has pinned the player away from its spawn point
C16_Witness ==
  /\ engineStage = "collisionStart"
  /\ quietRun[scenarioPlayer] # Null
  /\ quietRun[scenarioPlayer].again
  /\ quietRun[scenarioPlayer].position # Spawn(scenarioPlayer)
  /\ playerBody[scenarioPlayer].position = quietRun[scenarioPlayer].position

\* C17: a keydown of one of a player's three keys (a key state that becomes
\* set, or a key that goes down) leaves that player's locked position null
\* in the same step, and in every reachable state a locked position that is
\* not null belongs to a player whose grounded flag is true and none of
\* whose three key states is set.
C17_LockOnlyWhileIdleGrounded ==
  /\ [](\A p \in {1, 2} :
          playerLockedPosition[p] # Null =>
            /\ playerGrounded[p]
            /\ ~keysRef[LeftKey(p)]
            /\ ~keysRef[RightKey(p)]
            /\ ~keysRef[JumpKey(p)])
  /\ [][\A p \in {1, 2} :
          (\/ \E k \in {LeftKey(p), RightKey(p), JumpKey(p)} :
                ~keysRef[k] /\ keysRef'[k]
           \/ \E key \in keysDown' \ keysDown : KeyOwner(key) = p)
            => playerLockedPosition'[p] = Null]_vars

\* a key has gone down on a grounded player at rest on a slope: no lock
C17_Witness ==
  /\ engineStage = "beforeUpdate"
  /\ playerGrounded[scenarioPlayer]
  /\ playerGroundNormal[scenarioPlayer] = << 6, 0 - 8 >>
  /\ keysRef[LeftKey(scenarioPlayer)]
  /\ playerLockedPosition[scenarioPlayer] = Null
  /\ playerBody[scenarioPlayer].velocity = << 0, 0 >>

\* C18: a tick applies a jump impulse to a player only if the player's jump
\* key state is set and the player is grounded, the impulse clears the key
\* state, and the impulse uses up a fresh press of the key: while the key is
\* kept down, later grounded ticks apply no impulse before the key has been
\* released and pressed again.
C18_JumpEdgeTriggered ==
  [][\A p \in {1, 2} :
       (/\ engineStage = "beforeUpdate"
        /\ engineStage' = "collisionStart"
        /\ playerBody'[p].force # playerBody[p].force) =>
         /\ keysRef[JumpKey(p)]
         /\ playerGrounded[p]
         /\ ~keysRef'[JumpKey(p)]
         /\ freshJump[p]]_vars

\* C19: within one Engine.update the contact callbacks have set grounded and
\* the ground normal before gameLoop reads them: once gameLoop has run in an
\* update, the rest of that update leaves grounded and the ground normal of
\* both players as gameLoop read them.
C19_ContactsBeforeController ==
  [][(/\ engine /\ engine'
      /\ engineStage # "beforeUpdate"
      /\ engineStage' # engineStage) =>
       /\ playerGrounded' = playerGrounded
       /\ playerGroundNormal' = playerGroundNormal]_vars

\* C20: when the collisionActive callback is due, whatever pairs it is
\* called with, it leaves each player grounded with the qualifying normal of
\* the most negative y as ground normal if some pair of the player with a
\* body that is not a sensor has a normal, oriented from the player (negated
\* when the player is bodyB), with y < -0.5; otherwise it leaves the player
\* not grounded with ground normal and locked position null.
C20_ActiveKeepsSteepestNormal ==
  engineStage = "collisionActive" =>
    \A pairs \in ActivePairs(scenarioPlayer) \ { << >> } :
      \A p \in {1, 2} :
        LET after == collisionActive(Cur, pairs)
            mine == { k \in 1..Len(pairs) :
                        /\ Player(p) \in {pairs[k].bodyA, pairs[k].bodyB}
                        /\ ~isSensor(pairs[k].bodyA)
                        /\ ~isSensor(pairs[k].bodyB) }
            facing == { IF pairs[k].bodyA = Player(p) THEN pairs[k].normal
                        ELSE << 0 - pairs[k].normal[1],
                                0 - pairs[k].normal[2] >> : k \in mine }
            qualifying == { n \in facing : 2 * n[2] < 0 - NormalScale }
        IN IF qualifying # {}
           THEN /\ after.playerGrounded[p]
                /\ after.playerGroundNormal[p] \in qualifying
                /\ \A n \in qualifying : after.playerGroundNormal[p][2] <= n[2]
           ELSE /\ ~after.playerGrounded[p]
                /\ after.playerGroundNormal[p] = Null
                /\ after.playerLockedPosition[p] = Null

\* the callback has run over the contacts of a locked player 2 on flat
\* ground
C20_Witness ==
  /\ scenarioPlayer = 2
  /\ engineStage = "collisionEnd"
  /\ playerGrounded[2]
  /\ playerGroundNormal[2] = << 0, 0 - 10 >>
  /\ playerLockedPosition[2] # Null
  /\ ~playerGrounded[1]

C22_PlayersIndependent ==
  \A p \in {1, 2} :
    LET q == 3 - p
        State(s) == << s.playerLockedPosition[p], s.playerGroundNormal[p],
                       s.playerGrounded[p], s.playerBody[p].velocity >>
    IN (engine /\ playerBody[1] # Null /\ playerBody[2] # Null) =>
         CASE engineStage = "beforeUpdate" ->
                /\ \A key \in PlayerKeys(q) :
                     /\ State(handleKeyDown(Cur, key)) = State(Cur)
                     /\ State(handleKeyUp(Cur, key)) = State(Cur)
                /\ State(PlayerTick(Cur, q)) = State(Cur)
           [] engineStage = "collisionStart" ->
                \A pairs \in StartedPairs(q) :
                  State(collisionStartEvent(Cur, pairs)) = State(Cur)
           [] engineStage = "collisionActive" ->
                \A pairs \in ActivePairs(q) \ { << >> } :
                  State(collisionActive(Cur, pairs)) = State(Cur)
           [] engineStage = "collisionEnd" ->
                \A pairs \in StartedPairs(q) :
                  State(collisionEnd(Cur, pairs)) = State(Cur)

\* ------------------------------------------------------------------------
\* Properties of the pose helpers
\* ------------------------------------------------------------------------
\* C23: the key segKey(A, B) returns is the key of the call segKey(B, A),
\* for all points A and B, also when A and B differ and their quantized
\* points coincide.
C23_SegKeySymmetric ==
  (poseCall # Null /\ poseCall.fn = "segKey" /\ poseCall.returned) =>
    poseCall.result = segKey(poseCall.args[2], poseCall.args[1])

\* segKey((6,9), (9,0)) has returned "12,0|6,12": the second point comes
\* first, as the string "12,0" is less than "6,12"
C23_Witness ==
  /\ poseCall # Null
  /\ poseCall.fn = "segKey"
  /\ poseCall.returned
  /\ poseCall.args = << [x |-> 6, y |-> 9], [x |-> 9, y |-> 0] >>
  /\ poseCall.result = << 49, 50, 44, 48, 124, 54, 44, 49, 50 >>

\* C24 (as stated): posesToPlatformLines returns no two segments whose
\* unordered pairs of quantized endpoints are equal, and when the selected
\* people hold the segments (0,0)-(10,0) and (10,0)-(0,0) between confident
\* joints, exactly one segment with their key is stored.
C24_ExampleDeduplicates ==
  (poseCall # Null /\ poseCall.fn = "posesToPlatformLines"
   /\ poseCall.returned) =>
    LET chosen == pickTopPoses(poseCall.args[1], maxPeople)
        out == poseCall.result
        QKey(a, b) == { << quant(a.x), quant(a.y) >>, << quant(b.x), quant(b.y) >> }
        Holds(ax, ay, bx, by) ==
          \E i \in 1..Len(chosen), j \in 1..Len(AdjacentPairs) :
            LET a == chosen[i][AdjacentPairs[j][1] + 1]
                b == chosen[i][AdjacentPairs[j][2] + 1]
            IN /\ a.x = ax /\ a.y = ay /\ b.x = bx /\ b.y = by
               /\ ~isFaceKeypoint(a) /\ ~isFaceKeypoint(b)
               /\ ScoreOf(a) >= minKpScore /\ ScoreOf(b) >= minKpScore
    IN /\ \A m \in 1..Len(out), n \in 1..Len(out) :
            m # n => QKey(out[m].start, out[m].end) # QKey(out[n].start, out[n].end)
       /\ (Holds(0, 0, 10, 0) /\ Holds(10, 0, 0, 0)) =>
            Cardinality({ m \in 1..Len(out) :
                            QKey(out[m].start, out[m].end)
                              = { << 0, 0 >>, << 12, 0 >> } }) = 1

\* C24 (amended): posesToPlatformLines returns no two segments whose
\* unordered pairs of quantized endpoints are equal; of the candidates with
\* equal keys (adjacency pairs of the selected people that pass the face,
\* score, length and stage filters), taken person by person and pair by
\* pair, exactly the first is stored.
C24_FirstOfEqualKeysKept ==
  (poseCall # Null /\ poseCall.fn = "posesToPlatformLines"
   /\ poseCall.returned) =>
    LET chosen == pickTopPoses(poseCall.args[1], maxPeople)
        out == poseCall.result
        QKey(a, b) == { << quant(a.x), quant(a.y) >>, << quant(b.x), quant(b.y) >> }
        From(c) == chosen[c[1]][AdjacentPairs[c[2]][1] + 1]
        To(c) == chosen[c[1]][AdjacentPairs[c[2]][2] + 1]
        Earlier(c, d) == c[1] < d[1] \/ (c[1] = d[1] /\ c[2] < d[2])
    IN /\ \A m \in 1..Len(out), n \in 1..Len(out) :
            m # n => QKey(out[m].start, out[m].end) # QKey(out[n].start, out[n].end)
       /\ \A candidates \in
              { { c \in (1..Len(chosen)) \X (1..Len(AdjacentPairs)) :
                    /\ ~isFaceKeypoint(From(c)) /\ ~isFaceKeypoint(To(c))
                    /\ ScoreOf(From(c)) >= minKpScore
                    /\ ScoreOf(To(c)) >= minKpScore
                    /\ ~TooShort(From(c), To(c))
                    /\ ~OutsideStage(From(c), To(c),
                                     poseCall.args[2], poseCall.args[3]) } } :
            \A c \in candidates :
              (\A d \in candidates :
                 Earlier(d, c) => QKey(From(d), To(d)) # QKey(From(c), To(c)))
              => \E m \in 1..Len(out) :
                   /\ out[m].start = [x |-> From(c).x, y |-> From(c).y]
                   /\ out[m].end = [x |-> To(c).x, y |-> To(c).y]

\* the call has returned for a frame with EdgePose and BackPose, whose
\* segments (0,0)-(18,0) and (18,0)-(0,0) have one key: only the first is
\* in the result
C24_Witness ==
  /\ poseCall # Null
  /\ poseCall.fn = "posesToPlatformLines"
  /\ poseCall.returned
  /\ poseCall.args[1] = << EdgePose, BackPose >>
  /\ \E m \in 1..Len(poseCall.result) :
       poseCall.result[m] = [start |-> [x |-> 0, y |-> 0], end |-> [x |-> 18, y |-> 0]]
  /\ \A m \in 1..Len(poseCall.result) :
       poseCall.result[m] # [start |-> [x |-> 18, y |-> 0], end |-> [x |-> 0, y |-> 0]]

\* C25 (as stated): every coordinate P' within half the quantisation step
\* of P (within 3) has the quantized value quant(P) returned.
C25_QuantStableWithinHalfStep ==
  (poseCall # Null /\ poseCall.fn = "quant" /\ poseCall.returned) =>
    \A n \in Pixels :
      (2 * (n - poseCall.args[1]) <= quantStep
       /\ 2 * (poseCall.args[1] - n) <= quantStep) =>
        quant(n) = poseCall.result

\* C25 (amended): quant(P) is the multiple 6k of the step with
\* 6k - 3 <= P < 6k + 3, and every coordinate P' of that cell,
\* 6k - 3 <= P' < 6k + 3, has the quantized value quant(P) returned.
C25_QuantStableWithinCell ==
  (poseCall # Null /\ poseCall.fn = "quant" /\ poseCall.returned) =>
    /\ poseCall.result % quantStep = 0
    /\ 2 * (poseCall.result - poseCall.args[1]) <= quantStep
    /\ 2 * (poseCall.args[1] - poseCall.result) < quantStep
    /\ \A n \in Pixels :
         (2 * (poseCall.result - n) <= quantStep
          /\ 2 * (n - poseCall.result) < quantStep) =>
           quant(n) = poseCall.result

\* quant(-9) has returned -6: half a step from -12 and from -6, it goes up
C25_Witness ==
  /\ poseCall # Null
  /\ poseCall.fn = "quant"
  /\ poseCall.returned
  /\ poseCall.args = << 0 - 9 >>
  /\ poseCall.result = 0 - 6

\* C26: every segment posesToPlatformLines returns joins the two keypoints
\* of an adjacency pair of a selected person neither of which is named
\* nose, left_eye, right_eye, left_ear or right_ear: a pair with a face
\* keypoint yields no segment, however confident and far apart its
\* keypoints are.
C26_NoFaceSegments ==
  (poseCall # Null /\ poseCall.fn = "posesToPlatformLines"
   /\ poseCall.returned) =>
    \A chosen \in { pickTopPoses(poseCall.args[1], maxPeople) } :
      \A m \in 1..Len(poseCall.result) :
        \E i \in 1..Len(chosen), j \in 1..Len(AdjacentPairs) :
          LET a == chosen[i][AdjacentPairs[j][1] + 1]
              b == chosen[i][AdjacentPairs[j][2] + 1]
              face == {"nose", "left_eye", "right_eye", "left_ear", "right_ear"}
          IN /\ a.name \notin face
             /\ b.name \notin face
             /\ poseCall.result[m] = [start |-> [x |-> a.x, y |-> a.y],
                                      end |-> [x |-> b.x, y |-> b.y]]

\* the call has returned for FacePose, whose face keypoints are 100 pixels
\* apart with score 0.99: the result holds the shoulder line and the line
\* from left shoulder to left hip, and nothing else
C26_Witness ==
  /\ poseCall # Null
  /\ poseCall.fn = "posesToPlatformLines"
  /\ poseCall.returned
  /\ poseCall.args[1] = << FacePose >>
  /\ poseCall.result =
       << [start |-> [x |-> 300, y |-> 400], end |-> [x |-> 400, y |-> 400]],
          [start |-> [x |-> 300, y |-> 400], end |-> [x |-> 300, y |-> 700]] >>

\* C27: every segment posesToPlatformLines returns joins two keypoints of
\* an adjacency pair of a selected person that both have a score of at
\* least 0.35, a keypoint without score counting as 0: a score of 0.34 or
\* a missing score on either end excludes the pair.  A score of exactly
\* 0.35 on both ends does not: a pair of two body keypoints with scores of
\* at least 0.35 that is long enough and inside the stage has a segment
\* with its quantized endpoints in the result.
C27_ScoreFloorInclusive ==
  (poseCall # Null /\ poseCall.fn = "posesToPlatformLines"
   /\ poseCall.returned) =>
    \A chosen \in { pickTopPoses(poseCall.args[1], maxPeople) } :
      LET out == poseCall.result
          From(c) == chosen[c[1]][AdjacentPairs[c[2]][1] + 1]
          To(c) == chosen[c[1]][AdjacentPairs[c[2]][2] + 1]
          Confident(kp) == kp.hasScore /\ kp.score >= 35
          Quantized(a, b) ==
            { << quant(a.x), quant(a.y) >>, << quant(b.x), quant(b.y) >> }
      IN \A pairs \in { (1..Len(chosen)) \X (1..Len(AdjacentPairs)) } :
           /\ \A m \in 1..Len(out) :
                \E c \in pairs :
                  /\ Confident(From(c))
                  /\ Confident(To(c))
                  /\ out[m] = [start |-> [x |-> From(c).x, y |-> From(c).y],
                               end |-> [x |-> To(c).x, y |-> To(c).y]]
           /\ \A c \in pairs :
                (/\ Confident(From(c)) /\ Confident(To(c))
                 /\ ~isFaceKeypoint(From(c)) /\ ~isFaceKeypoint(To(c))
                 /\ ~TooShort(From(c), To(c))
                 /\ ~OutsideStage(From(c), To(c),
                                  poseCall.args[2], poseCall.args[3]))
                => \E m \in 1..Len(out) :
                     Quantized(out[m].start, out[m].end)
                       = Quantized(From(c), To(c))

\* the call has returned for FacePose: the shoulder line, both ends at
\* exactly 0.35, is in the result; no line leaves the right shoulder for
\* the right elbow (no score) or the right hip (0.34)
C27_Witness ==
  /\ poseCall # Null
  /\ poseCall.fn = "posesToPlatformLines"
  /\ poseCall.returned
  /\ poseCall.args[1] = << FacePose >>
  /\ FacePose[6].score = 35 /\ FacePose[7].score = 35
  /\ ~FacePose[9].hasScore /\ FacePose[13].score = 34
  /\ \E m \in 1..Len(poseCall.result) :
       /\ poseCall.result[m].start = [x |-> FacePose[6].x, y |-> FacePose[6].y]
       /\ poseCall.result[m].end = [x |-> FacePose[7].x, y |-> FacePose[7].y]
  /\ \A m \in 1..Len(poseCall.result) :
       poseCall.result[m].start # [x |-> FacePose[7].x, y |-> FacePose[7].y]

\* C28: every segment posesToPlatformLines returns is at least 18 pixels
\* long and has both endpoints in [0, stageW] x [0, stageH], the border
\* included; a pair that is too short or reaches outside the stage is
\* skipped and the other pairs are not affected: every pair of confident
\* body keypoints that is at least 18 pixels long and inside the stage has
\* a segment with its quantized endpoints in the result; the result for
\* an empty pose list is empty.
C28_LongEnoughAndInsideStage ==
  (poseCall # Null /\ poseCall.fn = "posesToPlatformLines"
   /\ poseCall.returned) =>
    \A chosen \in { pickTopPoses(poseCall.args[1], maxPeople) } :
      LET out == poseCall.result
          stageW == poseCall.args[2]
          stageH == poseCall.args[3]
          From(c) == chosen[c[1]][AdjacentPairs[c[2]][1] + 1]
          To(c) == chosen[c[1]][AdjacentPairs[c[2]][2] + 1]
          Long(a, b) ==
            (b.x - a.x) * (b.x - a.x) + (b.y - a.y) * (b.y - a.y) >= 18 * 18
          Inside(a) == 0 <= a.x /\ a.x <= stageW /\ 0 <= a.y /\ a.y <= stageH
          Quantized(a, b) ==
            { << quant(a.x), quant(a.y) >>, << quant(b.x), quant(b.y) >> }
      IN /\ \A m \in 1..Len(out) :
              /\ Long(out[m].start, out[m].end)
              /\ Inside(out[m].start)
              /\ Inside(out[m].end)
         /\ \A c \in (1..Len(chosen)) \X (1..Len(AdjacentPairs)) :
              (/\ Long(From(c), To(c)) /\ Inside(From(c)) /\ Inside(To(c))
               /\ ~isFaceKeypoint(From(c)) /\ ~isFaceKeypoint(To(c))
               /\ ScoreOf(From(c)) >= minKpScore
               /\ ScoreOf(To(c)) >= minKpScore)
              => \E m \in 1..Len(out) :
                   Quantized(out[m].start, out[m].end)
                     = Quantized(From(c), To(c))
         /\ poseCall.args[1] = << >> => out = << >>

\* the call has returned for EdgePose: of its twelve body pairs the six on
\* the border that are at least 18 pixels long are in the result, from
\* (0,0)-(18,0) to (1200,900)-(1200,882)
C28_Witness ==
  /\ poseCall # Null
  /\ poseCall.fn = "posesToPlatformLines"
  /\ poseCall.returned
  /\ poseCall.args = << << EdgePose >>, 1200, 900 >>
  /\ Len(poseCall.result) = 6
  /\ poseCall.result[1] =
       [start |-> [x |-> 0, y |-> 0], end |-> [x |-> 18, y |-> 0]]
  /\ poseCall.result[6] =
       [start |-> [x |-> 1200, y |-> 900], end |-> [x |-> 1200, y |-> 882]]

\* C29: pickTopPoses(poses, n) returns min(n, number of poses) poses; its
\* k-th pose is the pose of the input that has exactly k - 1 poses ranked
\* before it, where a pose ranks before another if its average keypoint
\* score (a missing score counting as 0) is higher, or is equal and it
\* comes earlier in the input; the call leaves its arguments as they were.
C29_TopPosesStableDescending ==
  /\ [](poseCall # Null /\ poseCall.fn = "pickTopPoses" /\ poseCall.returned =>
         \A poses \in { poseCall.args[1] } :
           LET n == poseCall.args[2]
               Total(p) ==
                 LET S[k \in 0..Len(p)] ==
                       IF k = 0 THEN 0
                       ELSE S[k - 1] + (IF p[k].hasScore THEN p[k].score ELSE 0)
                 IN S[Len(p)]
               Count(p) == IF Len(p) = 0 THEN 1 ELSE Len(p)
           IN \A total \in { [i \in 1..Len(poses) |-> Total(poses[i])] } :
                LET Before(j, i) ==
                      \/ total[j] * Count(poses[i]) > total[i] * Count(poses[j])
                      \/ /\ total[j] * Count(poses[i]) = total[i] * Count(poses[j])
                         /\ j < i
                    Rank(i) ==
                      1 + Cardinality({ j \in 1..Len(poses) : Before(j, i) })
                IN /\ Len(poseCall.result)
                       = (IF n < Len(poses) THEN n ELSE Len(poses))
                   /\ \A i \in 1..Len(poses) :
                        Rank(i) <= Len(poseCall.result) =>
                          poseCall.result[Rank(i)] = poses[i])
  /\ [][poseCall # Null /\ poseCall.fn = "pickTopPoses" =>
          poseCall'.args = poseCall.args]_vars

\* pickTopPoses has returned the two people of average 0.70 in their input
\* order and the first of the two of average 0.60
C29_Witness ==
  /\ poseCall # Null
  /\ poseCall.fn = "pickTopPoses"
  /\ poseCall.returned
  /\ poseCall.args =
       << << StandingPose(600, 300, 60), EdgePose, MirroredPose, BackPose >>, 3 >>
  /\ poseCall.result = << EdgePose, BackPose, StandingPose(600, 300, 60) >>

\* ------------------------------------------------------------------------
\* Properties of the level editor
\* ------------------------------------------------------------------------
\* the platforms of the level buildLevel produces from the editor as it is
BuiltPlatforms == buildLevel(editor).platforms

\* those of them that clicks placed: no level file has a platform from a
\* point of StartAt to a point of EndAt
ByClicks(platforms) ==
  SelectSeq(platforms,
            LAMBDA p : \E a \in StartAt, b \in EndAt :
                         p.start = r2Point(a) /\ p.end = r2Point(b))

PlacedBuilt == ByClicks(buildLevel(editor).platforms)

PlacedBuiltNext == ByClicks(buildLevel(editor').platforms)

NoTemporaryBuilt ==
  \A i \in 1..Len(BuiltPlatforms) : BuiltPlatforms[i].type # "temporary"

\* the second click of the permanent or ground tool: the platform from the
\* first click to this one is the last of the level, after the placed ones
\* it had
PlacedIsBuilt ==
  (/\ editor.toolMode \in { "permanentPlatform", "ground" }
   /\ editor.firstClickPoint # Null
   /\ ~editor.attemptStarted) =>
    \A pt \in EndAt :
      editor' = handleCanvasClick(editor, pt) =>
        PlacedBuiltNext =
          Append(PlacedBuilt,
                 [start |-> r2Point(editor.firstClickPoint),
                  end |-> r2Point(pt),
                  thickness |-> PLATFORM_THICKNESS,
                  type |-> platformTypeOf(editor.toolMode)])

\* a click of the delete tool
DeleteClick ==
  /\ editor.toolMode = "delete"
  /\ \E pt \in DeleteAt : editor' = handleCanvasClick(editor, pt)

\* the load of a level file
LevelLoad ==
  /\ ~editor.attemptStarted
  /\ \E file \in Files : ~ParseThrows(file) /\ editor' = handleFileSelect(editor, file)

\* every placed platform of the level old is in the level new, in its place
BuiltKept(old, new) ==
  /\ Len(new) >= Len(old)
  /\ \A i \in 1..Len(old) : new[i] = old[i]

\* one placed platform of the level old is not in the level new, the others
\* are, in their order
BuiltKeptButOne(old, new) ==
  \E i \in 1..Len(old) : new = Splice(old, i)

\* C30 as stated: in the level editor, whatever platforms are placed,
\* entities deleted and levels loaded, the level buildLevel produces holds
\* no temporary platform and holds every permanent and ground platform that
\* was placed and not deleted: a placed one enters the level, and one that
\* is in the level leaves it only by a click of the delete tool, one a click.
C30_PlacedKeptUnlessDeleted ==
  /\ []NoTemporaryBuilt
  /\ [][/\ PlacedIsBuilt
        /\ \A old \in { PlacedBuilt }, new \in { PlacedBuiltNext } :
             \/ BuiltKept(old, new)
             \/ BuiltKeptButOne(old, new) /\ DeleteClick]_vars

\* C30, amended: the level buildLevel produces holds no temporary platform
\* and holds every permanent and ground platform that was placed and was
\* neither deleted nor cleared by a later load: a placed one enters the
\* level, and one that is in the level leaves it only by a click of the
\* delete tool, one a click, or by the load of a level file, which leaves
\* no placed one.
C30_PlacedKeptUnlessDeletedOrLoaded ==
  /\ []NoTemporaryBuilt
  /\ [][/\ PlacedIsBuilt
        /\ \A old \in { PlacedBuilt }, new \in { PlacedBuiltNext } :
             \/ BuiltKept(old, new)
             \/ BuiltKeptButOne(old, new) /\ DeleteClick
             \/ new = << >> /\ LevelLoad]_vars

\* a level saved after a temporary and a permanent platform were placed on
\* a loaded level: the file holds the permanent one, rounded, and the
\* temporary one is still in the editor
C30_Witness ==
  /\ editor # Null
  /\ editor.saved # Null
  /\ editor.saved.platforms =
       << [start |-> [x |-> 100130, y |-> 300000],
           end |-> [x |-> 500000, y |-> 300000],
           thickness |-> PLATFORM_THICKNESS, type |-> "permanent"] >>
  /\ Len(editor.saved.flags) = 2
  /\ \E i \in 1..Len(editor.platformsRef) :
       editor.platformsRef[i].type = "temporary"
  /\ editor.saved = buildLevel(editor)

\* a SavedLevel: its platforms are permanent or ground
IsSavedLevel(levelData) ==
  \A i \in 1..Len(levelData.platforms) :
    levelData.platforms[i].type \in { "permanent", "ground" }

TwoDecimalPoint(p) == p.x % 10 = 0 /\ p.y % 10 = 0

\* its coordinates have at most two decimals
TwoDecimals(levelData) ==
  /\ \A i \in 1..Len(levelData.platforms) :
       /\ TwoDecimalPoint(levelData.platforms[i].start)
       /\ TwoDecimalPoint(levelData.platforms[i].end)
  /\ \A i \in 1..Len(levelData.flags) : TwoDecimalPoint(levelData.flags[i].flag)
  /\ levelData.player1Spawn # Null => TwoDecimalPoint(levelData.player1Spawn)
  /\ levelData.player2Spawn # Null => TwoDecimalPoint(levelData.player2Spawn)

\* the level with every flag lowered
Lowered(levelData) ==
  [levelData EXCEPT !.flags =
     [i \in 1..Len(levelData.flags) |->
        [levelData.flags[i] EXCEPT !.raised = FALSE]]]

\* C31: when the editor loads a SavedLevel whose coordinates have at most
\* two decimals, the level buildLevel produces from it has the platforms,
\* flags and spawn points of the loaded level, in their order, every flag
\* lowered.
C31_LoadThenBuildIsTheLevel ==
  [][\A levelData \in LevelFiles :
       (/\ IsSavedLevel(levelData)
        /\ TwoDecimals(levelData)
        /\ ~editor.attemptStarted
        /\ editor' = loadLevelHandler(editor, levelData)) =>
         \A built \in { buildLevel(editor') } :
           /\ built.platforms = levelData.platforms
           /\ built.flags = Lowered(levelData).flags
           /\ built.player1Spawn = levelData.player1Spawn
           /\ built.player2Spawn = levelData.player2Spawn]_vars

\* GroundLevel, whose file has a raised flag, loaded, cleared and saved
C31_Witness ==
  /\ editor # Null
  /\ editor.saved # Null
  /\ editor.saved = Lowered(GroundLevel)
  /\ editor.saved # GroundLevel
  /\ [i \in 1..Len(editor.platformsRef) |->
        [start |-> editor.platformsRef[i].meta.start,
         end |-> editor.platformsRef[i].meta.end,
         thickness |-> editor.platformsRef[i].meta.thickness,
         type |-> editor.platformsRef[i].type]] = GroundLevel.platforms

\* C32: a load of a level file that fails is reported and leaves the
\* editor's platforms, flags, spawn points and spawn markers, and the
\* bodies of its world, exactly as they were.
C32_FailedLoadKeepsLevel ==
  [][\A file \in Files :
       (/\ editorAlert = Null
        /\ ~editor.attemptStarted
        /\ FileSelectAlert(file) # Null
        /\ editor' = handleFileSelect(editor, file)
        /\ editorAlert' = FileSelectAlert(file)) =>
         /\ editor'.platformsRef = editor.platformsRef
         /\ editor'.flagsRef = editor.flagsRef
         /\ editor'.player1SpawnRef = editor.player1SpawnRef
         /\ editor'.player2SpawnRef = editor.player2SpawnRef
         /\ editor'.player1SpawnMarkerRef = editor.player1SpawnMarkerRef
         /\ editor'.player2SpawnMarkerRef = editor.player2SpawnMarkerRef
         /\ editor'.world = editor.world]_vars

\* ------------------------------------------------------------------------
\* Further properties of the controller
\* ------------------------------------------------------------------------
\* C33: when collisionEnd is due and a player stands on a surface
\* (collisionActive has left it grounded, with a ground normal), the end of
\* the contact of that player with a flag sensor leaves its grounded flag,
\* its ground normal and its locked position as they are.
C33_SensorEndKeepsGround ==
  (engine /\ engineStage = "collisionEnd") =>
    \A p \in {1, 2} :
      (playerGrounded[p] /\ playerGroundNormal[p] # Null) =>
        \A pair \in FlagPairs(p) :
          \A t \in { collisionEnd(Cur, << pair >>) } :
            /\ t.playerGrounded[p] = playerGrounded[p]
            /\ t.playerGroundNormal[p] = playerGroundNormal[p]
            /\ t.playerLockedPosition[p] = playerLockedPosition[p]

\* ------------------------------------------------------------------------
\* Further properties of the life cycle
\* ------------------------------------------------------------------------
\* C34: whenever cameraReady is true in the ready or the pose phase, the
\* camera stream is attached and the pose loop is running; in particular
\* the pose countdown does not run without them.
C34_ReadyCameraIsLive ==
  (mounted /\ phase \in {"ready", "pose"} /\ cameraReady) =>
    /\ streamRef
    /\ camLoop \in {"frame", "estimating"}


\* the pose countdown is running, the game countdown is running
PoseCounting == phase = "pose" /\ cameraReady
GameCounting == phase = "game" /\ ~gameWon

\* one tick of a countdown: one less, and zero stays zero
OneLess(before, after) ==
  after = IF before > 0 THEN before - 1 ELSE 0

\* C35: once the phase is pose and the camera is ready the pose countdown
\* starts from poseTime, every tick of it takes exactly one off, it never
\* goes below zero, and with the interval firing the phase becomes game;
\* in the game phase without a win the game countdown likewise reaches zero
\* and gameOver becomes true, unless the game phase is left by a reset
C35_CountdownsRunOut ==
  /\ [][(poseTimer' /\ ~poseTimer) => secondsLeft' = poseTime]_vars
  /\ [][PoseTick => OneLess(secondsLeft, secondsLeft')]_vars
  /\ [][GameTick => OneLess(gameSecondsLeft, gameSecondsLeft')]_vars
  /\ [](secondsLeft \in 0..poseTime /\ gameSecondsLeft \in 0..gameTime)
  /\ PoseCounting ~> (phase = "game")
  /\ GameCounting ~> (gameWon \/ phase # "game" \/ (gameSecondsLeft = 0 /\ gameOver))

C35_Witness ==
  /\ phase = "game"
  /\ poseTransitions = 1
  /\ attemptTicks = gameTime
  /\ gameSecondsLeft = 0
  /\ gameOver
  /\ ~gameWon

\* ------------------------------------------------------------------------
\* Further properties of the level editor
\* ------------------------------------------------------------------------
\* the canvas points clicked
ClickPoints == StartAt \cup EndAt \cup DeleteAt

\* the editor after the second click of a platform tool at pt: one platform
\* from the pending point to pt, in the world and in the list, and no
\* pending point
PlatformAdded(e, pt) ==
  [e EXCEPT
     !.world = Append(@, [label |-> "platform", start |-> e.firstClickPoint,
                          end |-> pt, thickness |-> PLATFORM_THICKNESS,
                          type |-> platformTypeOf(e.toolMode)]),
     !.platformsRef =
       Append(@, [body |-> [label |-> "platform", start |-> e.firstClickPoint,
                            end |-> pt, thickness |-> PLATFORM_THICKNESS,
                            type |-> platformTypeOf(e.toolMode)],
                  type |-> platformTypeOf(e.toolMode),
                  meta |-> [start |-> e.firstClickPoint, end |-> pt,
                            thickness |-> PLATFORM_THICKNESS]]),
     !.firstClickPoint = Null]

\* what a canvas click at pt has to make of the editor e
ClickedAsSaid(e, pt, after) ==
  IF e.gameWon \/ e.attemptStarted THEN after = e
  ELSE IF e.toolMode \notin PlatformTools THEN TRUE
  ELSE IF e.firstClickPoint = Null
  THEN after = [e EXCEPT !.firstClickPoint = pt]
  ELSE after = PlatformAdded(e, pt)

\* C36: in a platform tool the first canvas click only records the pending
\* start point, the second adds exactly one platform between the two points
\* and clears the pending point; selecting any tool clears the pending
\* point; after the attempt has started or the level is won a canvas click
\* changes nothing
C36_TwoClicksOnePlatform ==
  /\ [](editor # Null =>
          \A pt \in ClickPoints :
            ClickedAsSaid(editor, pt, handleCanvasClick(editor, pt)))
  /\ [][\A mode \in ToolModes :
          SelectTool(mode) =>
            editor' = [editor EXCEPT !.toolMode = mode,
                                     !.firstClickPoint = Null]]_vars

\* a platform drawn by two clicks, then a first click left pending when the
\* attempt began
C36_Witness ==
  /\ editor # Null
  /\ editor.attemptStarted
  /\ editor.toolMode \in PlatformTools
  /\ editor.firstClickPoint # Null
  /\ \E k \in 1..Len(editor.platformsRef) :
       /\ editor.platformsRef[k].meta.start \in StartAt
       /\ editor.platformsRef[k].meta.end \in EndAt

\* the spawn points and flag positions of the editor e
CheckedPoints(e) ==
  { pt \in { e.player1SpawnRef, e.player2SpawnRef } : pt # Null }
  \cup { e.flagsRef[i].flag.position : i \in 1..Len(e.flagsRef) }

\* a point lies below a ground platform it is horizontally within; the
\* platforms of the editor run level
BelowGround(e) ==
  \E pt \in CheckedPoints(e), g \in 1..Len(e.platformsRef) :
    /\ e.platformsRef[g].type = "ground"
    /\ \/ /\ e.platformsRef[g].meta.start.x <= pt.x
          /\ pt.x <= e.platformsRef[g].meta.end.x
       \/ /\ e.platformsRef[g].meta.end.x <= pt.x
          /\ pt.x <= e.platformsRef[g].meta.start.x
    /\ pt.y * 2 > e.platformsRef[g].meta.start.y * 2
                  + e.platformsRef[g].meta.thickness * 1000

\* what Attempt Clear asks of the level
ClearReady(e) ==
  /\ e.player1SpawnRef # Null
  /\ e.player2SpawnRef # Null
  /\ \A p \in {1, 2} : \E i \in 1..Len(e.flagsRef) : e.flagsRef[i].playerType = p
  /\ ~BelowGround(e)

PlayerBodies(world) ==
  SelectSeq(world, LAMBDA b : b.label = "player")

\* C37: Attempt Clear starts the attempt, with both player bodies at their
\* spawn points and attemptStarted set, only if both spawn points are set,
\* each player has a flag and no spawn point or flag lies below a ground
\* platform it is horizontally within; otherwise it reports an error,
\* attemptStarted stays false and no player body enters the world
C37_AttemptClearChecksLevel ==
  [][AttemptClear =>
       IF ClearReady(editor)
       THEN /\ editor'.attemptStarted
            /\ editorAlert' = Null
            /\ PlayerBodies(editor'.world)
                 = << PlayerBody(editor.player1SpawnRef, 1),
                      PlayerBody(editor.player2SpawnRef, 2) >>
       ELSE /\ editorAlert' # Null
            /\ ~editor'.attemptStarted
            /\ PlayerBodies(editor'.world) = << >>]_vars

\* the low flag of SunkLevel refused under a ground platform drawn across
\* it by two clicks
C37_Witness ==
  /\ editor # Null
  /\ editorAlert = << "Error: Player 2 flag 2 is below ground! Please reposition it." >>
  /\ ~editor.attemptStarted
  /\ Len(editor.platformsRef) = 1
  /\ editor.platformsRef[1].meta.end.x = 500000

\* ------------------------------------------------------------------------
\* Properties of the detector module
\* ------------------------------------------------------------------------
\* C38: however the calls of getMoveNetDetector interleave, the detector is
\* created at most once, every caller receives the same promise, and a
\* creation that failed is never started again
C38_OneDetectorPromise ==
  /\ [](moveNet # Null =>
          /\ Len(moveNet.promises) <= 1
          /\ moveNet.createCalls <= 1
          /\ \A i, j \in 1..MaxCallers :
               (moveNet.callers[i].promise # 0 /\ moveNet.callers[j].promise # 0)
                 => moveNet.callers[i].promise = moveNet.callers[j].promise)
  /\ [][(moveNet # Null /\ "rejected" \in { moveNet.promises[k] :
                                              k \in 1..Len(moveNet.promises) })
          => /\ moveNet'.promises = moveNet.promises
             /\ moveNet'.createCalls = moveNet.createCalls
             /\ moveNet'.detectorPromise = moveNet.detectorPromise]_vars

\* one caller started the creation, one called while createDetector was
\* pending, and one called after the creation had failed
C38_Witness ==
  /\ moveNet # Null
  /\ \E i, j, l \in 1..MaxCallers :
       /\ moveNet.callers[i].calledAt = "tfReady"
       /\ moveNet.callers[j].calledAt = "createDetector"
       /\ moveNet.callers[l].calledAt = "rejected"
       /\ moveNet.callers[l].pc = "failed"
       /\ moveNet.callers[i].promise = moveNet.callers[l].promise

\* ------------------------------------------------------------------------
\* Properties of the tile-map variant
\* ------------------------------------------------------------------------
\* C39: Try Again after a loss starts a fresh attempt: the countdown is back
\* at 60 and runs, the reached-flag marks of both players and the game-ended
\* mark are cleared, so that the timer loop and the controls act again
C39_TryAgainStartsAfresh ==
  [][TryAgain =>
       /\ tileGame'.timeLeft = 60
       /\ tileGame'.timer = 60
       /\ ~tileGame'.gameEnded
       /\ ~tileGame'.player1ReachedFlag
       /\ ~tileGame'.player2ReachedFlag
       /\ timerLoop(tileGame') # tileGame'
       /\ \A key \in TileKeys : onKey(tileGame', key) # tileGame']_vars

\* C40: the scene built for a level holds exactly one player-1 body, one
\* player-2 body, one flag1 and one flag2
C40_OnePlayerAndFlagEach ==
  (tileGame # Null /\ tileGame.gameRef) =>
    \A tag \in {"player1", "player2", "flag1", "flag2"} :
      Len(Get(tileGame.objects, tag)) = 1

=============================================================================
